---- MODULE Spec2Model ----
(***************************************************************************)
(* Order workflow and dispatch reconciliation of the PV enterprise backend *)
(* (FastAPI + SQLAlchemy over PostgreSQL).                                 *)
(*                                                                         *)
(* The database tables are the state.  Every HTTP handler is one action:   *)
(* it reads the committed rows, validates, mutates ORM objects and         *)
(* commits; an HTTPException or a constraint violation raised before the   *)
(* commit discards the session (get_db closes it), so the tables keep      *)
(* their old contents and only the response changes.  `resp' is the last   *)
(* response sent to a client: the handler, the HTTP status and the reason. *)
(*                                                                         *)
(* Requests are those that already passed the role / permission checks.    *)
(* Columns that no handler reads back are left out: descriptions, carrier  *)
(* data, timestamps, and the order's running log `notes' that              *)
(* add_order_action appends to.                                            *)
(***************************************************************************)
EXTENDS Integers, Sequences, FiniteSets, TLC

(* ------------------------------------------------------------------ *)
(* Bounds of the model                                                  *)
(* ------------------------------------------------------------------ *)
MaxQty == 2            \* largest quantity a request may name
MaxStock == 2          \* stock level above which update_stock is not explored
MaxItems == 2          \* order_items rows ever inserted
MaxDispatches == 2     \* dispatches rows ever inserted
MaxApprovals == 2      \* approvals rows ever inserted
MaxAttachments == 1    \* attachments rows per order
MaxLines == 2          \* lines of one decode or dispatch request
MaxReceived == 3       \* total stock increase per inventory row that is explored

(* ------------------------------------------------------------------ *)
(* Universes of identifiers                                             *)
(* ------------------------------------------------------------------ *)
NULL == "NULL"                     \* SQL NULL / Python None in an id or text column
None == 0                          \* None in a numeric request field (falsy, like 0)
Absent == 0 - 1                    \* a key the request dict does not carry
OrderIds == {"o1"}                 \* primary keys handed to orders rows
InvIds == {"X", "Y"}               \* inventory rows (seeded catalog)
NoInv == "Z"                       \* an inventory id with no row
CustomerIds == {"c1"}
NoCustomer == "c9"
Sessions == {"s1", "s2"}           \* concurrent request sessions

ItemIds == 1..MaxItems

VARIABLES
    orders,          \* orders table: id -> row
    order_items,     \* order_items table: id -> row
    inventory,       \* inventory table: id -> row
    dispatches,      \* dispatches table: sequence of rows, in insertion order
    dispatch_items,  \* dispatch_items table: sequence of rows
    approvals,       \* approvals table: sequence of rows
    attachments,     \* number of attachments rows per order id
    received,        \* history: total of the stock increases per inventory id
    txn,             \* per session: the request in flight between its reads and its commit
    resp             \* the last response returned to a client

db == <<orders, order_items, inventory, dispatches, dispatch_items, approvals, attachments>>
vars == <<orders, order_items, inventory, dispatches, dispatch_items, approvals, attachments,
          received, txn, resp>>

(* ------------------------------------------------------------------ *)
(* Helpers                                                              *)
(* ------------------------------------------------------------------ *)
RECURSIVE SumSeq(_)
SumSeq(s) == IF s = <<>> THEN 0 ELSE Head(s) + SumSeq(Tail(s))

\* a response: the handler, the order addressed, the HTTP status, the reason, and
\* for a dispatch request the index of the line that failed validation
ResponseAt(op, o, code, detail, line) ==
    [op |-> op, order |-> o, code |-> code, detail |-> detail, line |-> line]

Response(op, o, code, detail) == ResponseAt(op, o, code, detail, 0)

NoTxn == [pc |-> "idle"]

\* seeded catalog: standard unit price per inventory row
StdPrice(i) == IF i = "X" THEN 50 ELSE 70

\* OrderItem.dispatch_items: the dispatch_items rows referencing an order item
DispatchItemsOf(ditems, itemId) ==
    SelectSeq(ditems, LAMBDA di : di.order_item_id = itemId)

\* sum(di.quantity for di in order_item.dispatch_items)
DispatchedQty(ditems, itemId) ==
    SumSeq([k \in 1..Len(DispatchItemsOf(ditems, itemId)) |->
                DispatchItemsOf(ditems, itemId)[k].quantity])

\* total quantity of the dispatch_items rows drawn from an inventory row
DispatchedFromInv(ditems, inv) ==
    SumSeq([k \in 1..Len(SelectSeq(ditems, LAMBDA di : di.inventory_id = inv)) |->
                SelectSeq(ditems, LAMBDA di : di.inventory_id = inv)[k].quantity])

ItemsOfOrder(items, o) == {i \in DOMAIN items : items[i].order_id = o}

\* Order.is_fully_decoded
\* is_fully_decoded without its total_items > 0 test: an order with no line passes
IsFullyDecoded_AllowsNoLines(items, o) ==
    Cardinality({i \in ItemsOfOrder(items, o) : items[i].inventory_id # NULL})
        = Cardinality(ItemsOfOrder(items, o))

IsFullyDecoded(items, o) ==
    /\ Cardinality(ItemsOfOrder(items, o)) > 0
    /\ Cardinality({i \in ItemsOfOrder(items, o) : items[i].inventory_id # NULL})
          = Cardinality(ItemsOfOrder(items, o))

\* the inventory table without its CHECK (stock_quantity >= 0) constraint
CheckStockNonNegative_Dropped(inv) == TRUE

\* CHECK (stock_quantity >= 0) on inventory
CheckStockNonNegative(inv) == \A i \in DOMAIN inv : inv[i].stock_quantity >= 0

(* ------------------------------------------------------------------ *)
(* Initial state: seeded catalog, empty order tables                    *)
(* ------------------------------------------------------------------ *)
Init ==
    /\ orders = << >>
    /\ order_items = << >>
    /\ inventory = [i \in InvIds |-> [unit_price |-> StdPrice(i), stock_quantity |-> 0]]
    /\ dispatches = << >>
    /\ dispatch_items = << >>
    /\ approvals = << >>
    /\ attachments = [o \in OrderIds |-> 0]
    /\ received = [i \in InvIds |-> 0]
    /\ txn = [s \in Sessions |-> NoTxn]
    /\ resp = Response("none", NULL, 0, "")

(* ------------------------------------------------------------------ *)
(* Inventory ledger: POST /inventory/{item_id}/stock                    *)
(* ------------------------------------------------------------------ *)
StockOps == {"add", "subtract", "set"}

\* the stock value update_stock assigns, or the reason it raises
StockResult(inv, i, operation, q) ==
    IF i \notin DOMAIN inv THEN [code |-> 404, detail |-> "inventory_not_found"]
    ELSE IF operation = "add"
        THEN [code |-> 200, detail |-> "", stock |-> inv[i].stock_quantity + q]
    ELSE IF operation = "subtract"
        THEN IF inv[i].stock_quantity - q < 0
             THEN [code |-> 400, detail |-> "insufficient_stock"]
             ELSE [code |-> 200, detail |-> "", stock |-> inv[i].stock_quantity - q]
    ELSE IF q < 0
        THEN [code |-> 400, detail |-> "negative_stock"]
        ELSE [code |-> 200, detail |-> "", stock |-> q]

\* db.commit() of a session whose only dirty row is inventory[i]
CommitStock(inv, i, stock) ==
    IF CheckStockNonNegative([inv EXCEPT ![i].stock_quantity = stock])
    THEN [code |-> 200, detail |-> "", inventory |-> [inv EXCEPT ![i].stock_quantity = stock]]
    ELSE [code |-> 500, detail |-> "check_stock_non_negative", inventory |-> inv]

update_stock(i, operation, q) ==
    LET r == StockResult(inventory, i, operation, q) IN
    /\ IF r.code = 200
       THEN LET c == CommitStock(inventory, i, r.stock) IN
            /\ inventory' = c.inventory
            /\ received' = IF c.code = 200 /\ r.stock > inventory[i].stock_quantity
                           THEN [received EXCEPT ![i] = @ + (r.stock - inventory[i].stock_quantity)]
                           ELSE received
            /\ resp' = Response("update_stock", NULL, c.code, c.detail)
       ELSE /\ UNCHANGED <<inventory, received>>
            /\ resp' = Response("update_stock", NULL, r.code, r.detail)
    /\ UNCHANGED <<orders, order_items, dispatches, dispatch_items, approvals, attachments, txn>>

(* ------------------------------------------------------------------ *)
(* Dispatch engine: POST /dispatches/                                   *)
(* ------------------------------------------------------------------ *)
\* generate_dispatch_number: count of the year's dispatches plus one
GenerateDispatchNumber(disp) == Len(disp) + 1

\* the validation of one requested line (first loop of create_dispatch)
\* the validation of a line whose order-line lookup filters by id only, not by order
LineError_AnyOrder(items, ditems, inv, o, l) ==
    IF l.order_item_id \notin DOMAIN items
        THEN "order_item_not_found"
    ELSE IF l.quantity > items[l.order_item_id].quantity - DispatchedQty(ditems, l.order_item_id)
        THEN "exceeds_outstanding"
    ELSE IF l.inventory_id \notin DOMAIN inv
        THEN "inventory_not_found"
    ELSE IF l.quantity > inv[l.inventory_id].stock_quantity
        THEN "insufficient_stock"
    ELSE "ok"

LineError(items, ditems, inv, o, l) ==
    IF l.order_item_id \notin DOMAIN items \/ items[l.order_item_id].order_id # o
        THEN "order_item_not_found"
    ELSE IF l.quantity > items[l.order_item_id].quantity - DispatchedQty(ditems, l.order_item_id)
        THEN "exceeds_outstanding"
    ELSE IF l.inventory_id \notin DOMAIN inv
        THEN "inventory_not_found"
    ELSE IF l.quantity > inv[l.inventory_id].stock_quantity
        THEN "insufficient_stock"
    ELSE "ok"

\* index of the first requested line that fails validation, 0 when none does
FirstInvalid(items, ditems, inv, o, lines) ==
    IF \E k \in 1..Len(lines) : LineError(items, ditems, inv, o, lines[k]) # "ok"
    THEN CHOOSE k \in 1..Len(lines) :
            /\ LineError(items, ditems, inv, o, lines[k]) # "ok"
            /\ \A j \in 1..(k-1) : LineError(items, ditems, inv, o, lines[j]) = "ok"
    ELSE 0

ErrorCode(detail) ==
    IF detail \in {"order_item_not_found", "inventory_not_found", "order_not_found"} THEN 404 ELSE 400

\* OrderItem.status after a dispatch line
ItemStatusFor(total_dispatched, quantity) ==
    IF total_dispatched >= quantity THEN "completed"
    ELSE IF total_dispatched > 0 THEN "partial"
    ELSE "pending"

\* a loop that keeps only the decrement of the last line naming an item
ApplyStock_LastLineOnly(inv, lines) ==
    [i \in DOMAIN inv |->
        IF \E k \in 1..Len(lines) : lines[k].inventory_id = i
        THEN [inv[i] EXCEPT !.stock_quantity =
                @ - lines[CHOOSE k \in 1..Len(lines) :
                            /\ lines[k].inventory_id = i
                            /\ \A j \in (k + 1)..Len(lines) : lines[j].inventory_id # i].quantity]
        ELSE inv[i]]

\* second loop of create_dispatch: the stock decrements, one line after the other
RECURSIVE ApplyStock(_, _)
ApplyStock(inv, lines) ==
    IF lines = <<>> THEN inv
    ELSE ApplyStock([inv EXCEPT ![Head(lines).inventory_id].stock_quantity = @ - Head(lines).quantity],
                    Tail(lines))

\* second loop of create_dispatch: the item statuses.  dispatched[i] is the sum over
\* order_item.dispatch_items as loaded from the tables: the session does not
\* autoflush, so the rows added by this request are not in the collection
RECURSIVE ApplyItemStatus(_, _, _)
ApplyItemStatus(items, dispatched, lines) ==
    IF lines = <<>> THEN items
    ELSE ApplyItemStatus(
            [items EXCEPT ![Head(lines).order_item_id].status =
                ItemStatusFor(dispatched[Head(lines).order_item_id] + Head(lines).quantity,
                              items[Head(lines).order_item_id].quantity)],
            dispatched, Tail(lines))

\* a rollup that never closes the dispatch stage
RollupOrder_NeverPaymentPending(order, items, o) ==
    IF \E i \in ItemsOfOrder(items, o) : items[i].status \in {"partial", "completed"}
    THEN [order EXCEPT !.status = "partially_dispatched"]
    ELSE order

\* order-level rollup over all items of the order
RollupOrder(order, items, o) ==
    LET all_completed == \A i \in ItemsOfOrder(items, o) : items[i].status = "completed"
        any_partial == \E i \in ItemsOfOrder(items, o) : items[i].status \in {"partial", "completed"}
    IN  IF all_completed
        THEN [order EXCEPT !.status = "payment_pending",
                                           !.workflow_stage = "payment_pending"]
        ELSE IF any_partial
        THEN [order EXCEPT !.status = "partially_dispatched"]
        ELSE order

NewDispatchItems(did, lines) ==
    [k \in 1..Len(lines) |-> [dispatch_id |-> did,
                              order_item_id |-> lines[k].order_item_id,
                              inventory_id |-> lines[k].inventory_id,
                              quantity |-> lines[k].quantity]]

\* create_dispatch without its workflow-stage guard
DispatchReject_NoStageGuard(S, o, lines) ==
    IF o \notin DOMAIN S.orders THEN "order_not_found"
    ELSE IF FirstInvalid(S.order_items, S.dispatch_items, S.inventory, o, lines) # 0
        THEN LineError(S.order_items, S.dispatch_items, S.inventory, o,
                       lines[FirstInvalid(S.order_items, S.dispatch_items, S.inventory, o, lines)])
    ELSE "ok"

\* the guards of create_dispatch up to the end of the validation loop, evaluated on
\* the rows the session read (S)
DispatchReject(S, o, lines) ==
    IF o \notin DOMAIN S.orders THEN "order_not_found"
    ELSE IF S.orders[o].workflow_stage # "inventory_check" THEN "wrong_stage"
    ELSE IF FirstInvalid(S.order_items, S.dispatch_items, S.inventory, o, lines) # 0
        THEN LineError(S.order_items, S.dispatch_items, S.inventory, o,
                       lines[FirstInvalid(S.order_items, S.dispatch_items, S.inventory, o, lines)])
    ELSE "ok"

\* The tables as one record: what a session reads, and what a commit writes to.
Tables ==
    [orders |-> orders, order_items |-> order_items, inventory |-> inventory,
     dispatches |-> dispatches, dispatch_items |-> dispatch_items]

\* a number column without its unique index
NumberUnique_Dropped(existing, number) == TRUE

\* unique=True on orders.order_number and on dispatches.dispatch_number: the INSERT
\* of a number that a committed row already holds raises IntegrityError
NumberUnique(existing, number) == number \notin existing

DispatchNumbers(disp) == {disp[k].dispatch_number : k \in 1..Len(disp)}

\* create_dispatch from the flush of the header to db.commit().  S holds the rows
\* read by the validation loop, D the committed tables now.  The ORM objects the
\* handler still references after validation (the order, and the order item and
\* inventory row of the last requested line) keep the values read in S: a query
\* that returns an object already in the session does not refresh it.  Every other
\* row is read again.  The commit inserts the header and the lines and writes the
\* changed columns as absolute values.  did is the number generate_dispatch_number
\* returned.
DispatchCommitAs(S, D, o, lines, did) ==
    LET last == lines[Len(lines)]
        baseInv == [i \in DOMAIN D.inventory |->
                      IF lines # <<>> /\ i = last.inventory_id
                      THEN S.inventory[i] ELSE D.inventory[i]]
        baseItems == [i \in DOMAIN D.order_items |->
                      IF lines # <<>> /\ i = last.order_item_id
                      THEN S.order_items[i] ELSE D.order_items[i]]
        dispatched == [i \in DOMAIN D.order_items |->
                      IF lines # <<>> /\ i = last.order_item_id
                      THEN DispatchedQty(S.dispatch_items, i)
                      ELSE DispatchedQty(D.dispatch_items, i)]
        newInv == ApplyStock(baseInv, lines)
        newItems == ApplyItemStatus(baseItems, dispatched, lines)
        newOrder == RollupOrder(S.orders[o], newItems, o)
        touchedInv == {lines[k].inventory_id : k \in 1..Len(lines)}
        touchedItems == {lines[k].order_item_id : k \in 1..Len(lines)}
        wInv == [i \in DOMAIN D.inventory |->
                    IF i \in touchedInv
                    THEN [D.inventory[i] EXCEPT !.stock_quantity = newInv[i].stock_quantity]
                    ELSE D.inventory[i]]
        wItems == [i \in DOMAIN D.order_items |->
                    IF i \in touchedItems /\ newItems[i].status # baseItems[i].status
                    THEN [D.order_items[i] EXCEPT !.status = newItems[i].status]
                    ELSE D.order_items[i]]
        wOrder == [D.orders[o] EXCEPT
                    !.status = IF newOrder.status # S.orders[o].status
                               THEN newOrder.status ELSE @,
                    !.workflow_stage = IF newOrder.workflow_stage # S.orders[o].workflow_stage
                                       THEN newOrder.workflow_stage ELSE @]
    IN  IF ~NumberUnique(DispatchNumbers(D.dispatches), did)
        THEN [code |-> 500, detail |-> "unique_violation", tables |-> D]
        ELSE IF ~CheckStockNonNegative(wInv)
        THEN [code |-> 500, detail |-> "check_stock_non_negative", tables |-> D]
        ELSE [code |-> 201, detail |-> "",
              tables |-> [orders |-> [D.orders EXCEPT ![o] = wOrder],
                          order_items |-> wItems,
                          inventory |-> wInv,
                          dispatches |-> Append(D.dispatches,
                                                [order_id |-> o, dispatch_number |-> did]),
                          dispatch_items |-> D.dispatch_items \o NewDispatchItems(did, lines)]]

\* the same with the number generated right before the header is flushed
DispatchCommit(S, D, o, lines) ==
    DispatchCommitAs(S, D, o, lines, GenerateDispatchNumber(D.dispatches))

WriteTables(T) ==
    /\ orders' = T.orders
    /\ order_items' = T.order_items
    /\ inventory' = T.inventory
    /\ dispatches' = T.dispatches
    /\ dispatch_items' = T.dispatch_items

\* create_dispatch validating and applying line by line, committing each applied
\* line: the lines before the first invalid one stay dispatched
CreateDispatchResult_AppliesValidPrefix(T, o, lines) ==
    LET rej == DispatchReject(T, o, lines)
        k == FirstInvalid(T.order_items, T.dispatch_items, T.inventory, o, lines)
    IN  IF rej \in {"order_not_found", "wrong_stage"}
        THEN [code |-> ErrorCode(rej), detail |-> rej, tables |-> T, line |-> 0]
        ELSE IF rej # "ok"
        THEN [code |-> ErrorCode(rej), detail |-> rej, line |-> k,
              tables |-> IF k > 1
                         THEN DispatchCommit(T, T, o, SubSeq(lines, 1, k - 1)).tables
                         ELSE T]
        ELSE [line |-> 0] @@ DispatchCommit(T, T, o, lines)

\* the response and the tables create_dispatch leaves when it runs on tables T with
\* no other commit in between: an HTTPException rolls the session back
CreateDispatchResult(T, o, lines) ==
    LET rej == DispatchReject(T, o, lines) IN
    IF rej # "ok"
    THEN [code |-> ErrorCode(rej), detail |-> rej, tables |-> T,
          line |-> IF rej \in {"order_not_found", "wrong_stage"} THEN 0
                   ELSE FirstInvalid(T.order_items, T.dispatch_items, T.inventory, o, lines)]
    ELSE [line |-> 0] @@ DispatchCommit(T, T, o, lines)

\* POST /dispatches/
create_dispatch(o, lines) ==
    LET r == CreateDispatchResult(Tables, o, lines) IN
    /\ Len(dispatches) < MaxDispatches
    /\ WriteTables(r.tables)
    /\ resp' = ResponseAt("create_dispatch", o, r.code, r.detail, r.line)
    /\ UNCHANGED <<approvals, attachments, received, txn>>

\* the handler of session s up to the end of its validation loop
create_dispatch_validate(s, o, lines) ==
    LET rej == DispatchReject(Tables, o, lines) IN
    /\ txn[s] = NoTxn
    /\ Len(dispatches) + Cardinality({t \in Sessions : txn[t] # NoTxn}) < MaxDispatches
    /\ IF rej # "ok"
       THEN /\ resp' = ResponseAt("create_dispatch", o, ErrorCode(rej), rej,
                               CreateDispatchResult(Tables, o, lines).line)
            /\ UNCHANGED txn
       ELSE /\ txn' = [txn EXCEPT ![s] = [pc |-> "validated", order_id |-> o,
                                          lines |-> lines, snapshot |-> Tables]]
            /\ UNCHANGED resp
    /\ UNCHANGED <<orders, order_items, inventory, dispatches, dispatch_items,
                   approvals, attachments, received>>

\* the rest of the handler of session s: header, lines, decrements, rollup, commit
create_dispatch_commit(s) ==
    /\ txn[s].pc = "validated"
    /\ LET c == DispatchCommit(txn[s].snapshot, Tables, txn[s].order_id, txn[s].lines) IN
        /\ WriteTables(c.tables)
        /\ resp' = Response("create_dispatch", txn[s].order_id, c.code, c.detail)
    /\ txn' = [txn EXCEPT ![s] = NoTxn]
    /\ UNCHANGED <<approvals, attachments, received>>

\* session s calls generate_dispatch_number: the count is read now
create_dispatch_number(s) ==
    /\ txn[s].pc = "validated"
    /\ txn' = [txn EXCEPT ![s] = [pc |-> "dispatch_numbered", order_id |-> @.order_id,
                                   lines |-> @.lines, snapshot |-> @.snapshot,
                                   number |-> GenerateDispatchNumber(dispatches)]]
    /\ UNCHANGED <<orders, order_items, inventory, dispatches, dispatch_items,
                   approvals, attachments, received, resp>>

\* session s flushes the header carrying that number and runs on to db.commit()
create_dispatch_insert(s) ==
    /\ txn[s].pc = "dispatch_numbered"
    /\ LET c == DispatchCommitAs(txn[s].snapshot, Tables, txn[s].order_id,
                                 txn[s].lines, txn[s].number) IN
        /\ WriteTables(c.tables)
        /\ resp' = Response("create_dispatch", txn[s].order_id, c.code, c.detail)
    /\ txn' = [txn EXCEPT ![s] = NoTxn]
    /\ UNCHANGED <<approvals, attachments, received>>

(* ------------------------------------------------------------------ *)
(* Order aggregate: /orders endpoints                                   *)
(* ------------------------------------------------------------------ *)
\* a handler that raises HTTPException (or fails at commit): nothing is committed
Rejected(op, o, code, detail) ==
    /\ resp' = Response(op, o, code, detail)
    /\ UNCHANGED <<orders, order_items, inventory, dispatches, dispatch_items,
                   approvals, attachments, received, txn>>

\* seeded price list: its price for an inventory row, None when it has no entry
PriceListPrice(pl, i) == IF pl = "pl1" /\ i = "X" THEN 40 ELSE None

\* generate_order_number: count of the year's orders plus one
GenerateOrderNumber(ords) == Cardinality(DOMAIN ords) + 1

\* POST /orders/ ; o is the primary key the new row receives
OrderNumbers(ords) == {ords[x].order_number : x \in DOMAIN ords}

\* the orders table with the new Order row
InsertOrder(ords, o, customer, number) ==
    [x \in DOMAIN ords \cup {o} |->
        IF x = o
        THEN [customer_id |-> customer,
              order_number |-> number,
              status |-> "draft",
              workflow_stage |-> "order_request",
              price_list_id |-> NULL,
              discount_percentage |-> 0]
        ELSE ords[x]]

create_order(o, customer) ==
    /\ o \notin DOMAIN orders
    /\ IF customer \notin CustomerIds
       THEN Rejected("create_order", o, 404, "customer_not_found")
       ELSE IF ~NumberUnique(OrderNumbers(orders), GenerateOrderNumber(orders))
       THEN Rejected("create_order", o, 500, "unique_violation")
       ELSE /\ orders' = InsertOrder(orders, o, customer, GenerateOrderNumber(orders))
            /\ resp' = Response("create_order", o, 201, "")
            /\ UNCHANGED <<order_items, inventory, dispatches, dispatch_items,
                           approvals, attachments, received, txn>>

\* create_order in session s up to generate_order_number: the count is read now
create_order_number(s, o, customer) ==
    /\ txn[s] = NoTxn
    /\ o \notin DOMAIN orders
    /\ \A t \in Sessions : txn[t].pc = "order_numbered" => txn[t].order_id # o
    /\ IF customer \notin CustomerIds
       THEN Rejected("create_order", o, 404, "customer_not_found")
       ELSE /\ txn' = [txn EXCEPT ![s] = [pc |-> "order_numbered", order_id |-> o,
                                          customer |-> customer,
                                          number |-> GenerateOrderNumber(orders)]]
            /\ UNCHANGED <<orders, order_items, inventory, dispatches, dispatch_items,
                           approvals, attachments, received, resp>>

\* the rest of create_order in session s: INSERT at db.flush(), then db.commit()
create_order_commit(s) ==
    /\ txn[s].pc = "order_numbered"
    /\ IF ~NumberUnique(OrderNumbers(orders), txn[s].number)
       THEN /\ resp' = Response("create_order", txn[s].order_id, 500, "unique_violation")
            /\ UNCHANGED orders
       ELSE /\ orders' = InsertOrder(orders, txn[s].order_id, txn[s].customer,
                                     txn[s].number)
            /\ resp' = Response("create_order", txn[s].order_id, 201, "")
    /\ txn' = [txn EXCEPT ![s] = NoTxn]
    /\ UNCHANGED <<order_items, inventory, dispatches, dispatch_items,
                   approvals, attachments, received>>

\* a delete that removes the order row and, by cascade, its lines, its dispatches
\* and their lines
delete_order_Hard(o) ==
    IF o \notin DOMAIN orders
    THEN Rejected("delete_order", o, 404, "order_not_found")
    ELSE /\ orders' = [x \in DOMAIN orders \ {o} |-> orders[x]]
         /\ order_items' = [i \in DOMAIN order_items \ ItemsOfOrder(order_items, o) |->
                                order_items[i]]
         /\ dispatches' = SelectSeq(dispatches, LAMBDA d : d.order_id # o)
         /\ dispatch_items' = SelectSeq(dispatch_items, LAMBDA di :
                                 \A k \in 1..Len(dispatches) :
                                    dispatches[k].dispatch_number = di.dispatch_id
                                    => dispatches[k].order_id # o)
         /\ resp' = Response("delete_order", o, 204, "")
         /\ UNCHANGED <<inventory, approvals, attachments, received, txn>>

\* DELETE /orders/{order_id}
delete_order(o) ==
    IF o \notin DOMAIN orders
    THEN Rejected("delete_order", o, 404, "order_not_found")
    ELSE /\ orders' = [orders EXCEPT ![o].status = "cancelled"]
         /\ resp' = Response("delete_order", o, 204, "")
         /\ UNCHANGED <<order_items, inventory, dispatches, dispatch_items,
                        approvals, attachments, received, txn>>

\* foreign key dispatch_items.order_item_id -> order_items.id: a referenced
\* order item cannot be deleted
OrderItemsDeletable(ditems, ids) ==
    \A k \in 1..Len(ditems) : ditems[k].order_item_id \notin ids

\* decode_item.unit_price, else the order's price-list price, else the catalog price
GetUnitPrice(order, inv, d) ==
    IF d.unit_price # None THEN d.unit_price
    ELSE IF order.price_list_id # NULL /\ PriceListPrice(order.price_list_id, d.inventory_id) # None
        THEN PriceListPrice(order.price_list_id, d.inventory_id)
    ELSE inv[d.inventory_id].unit_price

\* Primary keys of new order_items rows.  The code draws fresh UUIDs; a key that
\* no row holds and no dispatch_items row references is as good as a fresh one.
UsedItemIds(items, ditems) ==
    DOMAIN items \cup {ditems[k].order_item_id : k \in 1..Len(ditems)}

Min(S) == CHOOSE m \in S : \A x \in S : m <= x

RECURSIVE FreshIds(_, _)
FreshIds(used, n) ==
    IF n = 0 THEN <<>>
    ELSE <<Min(ItemIds \ used)>> \o FreshIds(used \cup {Min(ItemIds \ used)}, n - 1)

\* item_description update_decoded_items writes: "Decoded: {sku} - {description}"
DecodedDescription(i) == IF i = "X" THEN "Decoded: X" ELSE "Decoded: Y"

\* a decoded row described after its own catalog item, without the notes handed in
DecodedItem_OwnDescription(o, d, price, gst_default, description, notes) ==
    [order_id |-> o,
     item_description |-> DecodedDescription(d.inventory_id),
     notes |-> NULL,
     quantity |-> IF d.quantity = None THEN 1 ELSE d.quantity,
     inventory_id |-> d.inventory_id,
     unit_price |-> price,
     gst_percentage |-> IF d.gst_percentage = None THEN gst_default ELSE d.gst_percentage,
     status |-> "decoded"]

\* the OrderItem row a decode request line produces
DecodedItem(o, d, price, gst_default, description, notes) ==
    [order_id |-> o,
     item_description |-> description,
     notes |-> notes,
     quantity |-> IF d.quantity = None THEN 1 ELSE d.quantity,
     inventory_id |-> d.inventory_id,
     unit_price |-> price,
     gst_percentage |-> IF d.gst_percentage = None THEN gst_default ELSE d.gst_percentage,
     status |-> "decoded"]

\* index of the first decode line naming an inventory id with no row, 0 when none
FirstMissingInventory(inv, ds) ==
    IF \E k \in 1..Len(ds) : ds[k].inventory_id \notin DOMAIN inv
    THEN Min({k \in 1..Len(ds) : ds[k].inventory_id \notin DOMAIN inv})
    ELSE 0

\* a session whose pending changes are committed when it is closed
RolledBack_CommitOnClose(committed, pending) == pending

\* get_db closes the session of a request that raised before db.commit(): the
\* DELETE it has executed and the objects it has changed or added are discarded
RolledBack(committed, pending) == committed

\* update_decoded_items after its bulk DELETE and the first n lines of the request:
\* the order's rows are gone, one new row per line processed
ReplacedItems(items, ditems, inv, o, ds, n) ==
    LET old == ItemsOfOrder(items, o)
        kept == [i \in DOMAIN items \ old |-> items[i]]
        ids == FreshIds(UsedItemIds(kept, ditems), n)
    IN  [i \in DOMAIN kept \cup {ids[k] : k \in 1..n} |->
            IF i \in DOMAIN kept THEN kept[i]
            ELSE LET k == CHOOSE k \in 1..n : ids[k] = i IN
                 DecodedItem(o, ds[k],
                             IF ds[k].unit_price # None THEN ds[k].unit_price
                             ELSE inv[ds[k].inventory_id].unit_price, 5,
                             DecodedDescription(ds[k].inventory_id), NULL)]

\* decode_order_item_multiple after the first n lines of the request: the original
\* row carries the first line, one new row per further line processed
MultiDecodedItems(items, ditems, order, inv, o, item_id, ds, n) ==
    LET ids == FreshIds(UsedItemIds(items, ditems), IF n = 0 THEN 0 ELSE n - 1) IN
    IF n = 0 THEN items
    ELSE [i \in DOMAIN items \cup {ids[k] : k \in 1..n - 1} |->
            IF i = item_id
            THEN DecodedItem(o, ds[1], GetUnitPrice(order, inv, ds[1]), 18,
                             items[item_id].item_description, items[item_id].notes)
            ELSE IF i \in DOMAIN items THEN items[i]
            ELSE LET k == CHOOSE k \in 1..n - 1 : ids[k] = i IN
                 DecodedItem(o, ds[k + 1], GetUnitPrice(order, inv, ds[k + 1]), 18,
                             items[item_id].item_description, items[item_id].notes)]

\* PUT /orders/{order_id}/decoded-items
update_decoded_items(o, ds) ==
    IF o \notin DOMAIN orders
    THEN Rejected("update_decoded_items", o, 404, "order_not_found")
    ELSE LET old == ItemsOfOrder(order_items, o)
             kept == [i \in DOMAIN order_items \ old |-> order_items[i]]
             missing == FirstMissingInventory(inventory, ds)
         IN
         IF ~OrderItemsDeletable(dispatch_items, old)
         THEN Rejected("update_decoded_items", o, 500, "fk_dispatch_items_order_item")
         ELSE IF missing # 0
         THEN /\ order_items' = RolledBack(order_items,
                                    ReplacedItems(order_items, dispatch_items, inventory,
                                                  o, ds, missing - 1))
              /\ resp' = ResponseAt("update_decoded_items", o, 404, "inventory_not_found",
                                    missing)
              /\ UNCHANGED <<orders, inventory, dispatches, dispatch_items,
                             approvals, attachments, received, txn>>
         ELSE /\ Cardinality(ItemIds \ UsedItemIds(kept, dispatch_items)) >= Len(ds)
              /\ order_items' = ReplacedItems(order_items, dispatch_items, inventory,
                                              o, ds, Len(ds))
              /\ orders' = [orders EXCEPT ![o] = @]
              /\ resp' = Response("update_decoded_items", o, 200, "")
              /\ UNCHANGED <<inventory, dispatches, dispatch_items,
                             approvals, attachments, received, txn>>

\* POST /orders/{order_id}/items/{item_id}/decode-multiple
decode_order_item_multiple(o, item_id, ds) ==
    IF o \notin DOMAIN orders
    THEN Rejected("decode_order_item_multiple", o, 404, "order_not_found")
    ELSE IF item_id \notin DOMAIN order_items \/ order_items[item_id].order_id # o
    THEN Rejected("decode_order_item_multiple", o, 404, "order_item_not_found")
    ELSE IF FirstMissingInventory(inventory, ds) # 0
    THEN /\ order_items' = RolledBack(order_items,
                               MultiDecodedItems(order_items, dispatch_items, orders[o],
                                                 inventory, o, item_id, ds,
                                                 FirstMissingInventory(inventory, ds) - 1))
         /\ resp' = ResponseAt("decode_order_item_multiple", o, 404, "inventory_not_found",
                               FirstMissingInventory(inventory, ds))
         /\ UNCHANGED <<orders, inventory, dispatches, dispatch_items,
                        approvals, attachments, received, txn>>
    ELSE /\ Cardinality(ItemIds \ UsedItemIds(order_items, dispatch_items)) >= Len(ds) - 1
         /\ order_items' = MultiDecodedItems(order_items, dispatch_items, orders[o],
                                             inventory, o, item_id, ds, Len(ds))
         /\ resp' = Response("decode_order_item_multiple", o, 200, "")
         /\ UNCHANGED <<orders, inventory, dispatches, dispatch_items,
                        approvals, attachments, received, txn>>

\* POST /orders/{order_id}/items/{item_id}/decode
decode_order_item(o, item_id, d) ==
    IF o \notin DOMAIN orders
    THEN Rejected("decode_order_item", o, 404, "order_not_found")
    ELSE IF item_id \notin DOMAIN order_items \/ order_items[item_id].order_id # o
    THEN Rejected("decode_order_item", o, 404, "order_item_not_found")
    ELSE IF d.inventory_id \notin DOMAIN inventory
    THEN Rejected("decode_order_item", o, 404, "inventory_not_found")
    ELSE LET newItems == [order_items EXCEPT ![item_id] =
                            [@ EXCEPT !.inventory_id = d.inventory_id,
                                      !.quantity = IF d.quantity # None THEN d.quantity ELSE @,
                                      !.unit_price = GetUnitPrice(orders[o], inventory, d),
                                      !.gst_percentage = IF d.gst_percentage = None THEN 18
                                                         ELSE d.gst_percentage,
                                      !.status = "decoded"]]
         IN
         /\ order_items' = newItems
         /\ orders' = IF IsFullyDecoded(newItems, o)
                      THEN [orders EXCEPT ![o].workflow_stage = "decoding_approval",
                                          ![o].status = "pending_approval"]
                      ELSE orders
         /\ resp' = Response("decode_order_item", o, 200, "")
         /\ UNCHANGED <<inventory, dispatches, dispatch_items,
                        approvals, attachments, received, txn>>

\* the pending rows of every order: the query without its entity_id filter
PendingApprovals_AnyOrder(apps, o) ==
    {k \in 1..Len(apps) : apps[k].status = "pending"}

\* the pending approvals rows of an order: what the handlers' .first() may return
PendingApprovals(apps, o) ==
    {k \in 1..Len(apps) : apps[k].entity_id = o /\ apps[k].status = "pending"}

\* the rows of an order with a stage label, decided or not: the query without
\* its status filter
PendingApprovalsAt_AnyStatus(apps, o, stage) ==
    {k \in 1..Len(apps) : apps[k].entity_id = o /\ apps[k].stage = stage}

\* the pending rows of an order with a stage label (approve-po / reject-po query)
PendingApprovalsAt(apps, o, stage) ==
    {k \in PendingApprovals(apps, o) : apps[k].stage = stage}

NewApproval(o, stage) ==
    [entity_id |-> o, stage |-> stage, status |-> "pending",
     approver_id |-> NULL, comments |-> NULL, approved_at |-> NULL]

\* a resolution that records its decision as a new row when .first() returned None
Resolve_RecordsWithoutRow(apps, k, decision, comments) ==
    IF k = 0
    THEN Append(apps, [entity_id |-> NULL, stage |-> NULL, status |-> decision,
                       approver_id |-> "exec", comments |-> comments,
                       approved_at |-> "utcnow"])
    ELSE [apps EXCEPT ![k] = [@ EXCEPT !.status = decision,
                                       !.approver_id = "exec",
                                       !.comments = comments,
                                       !.approved_at = "utcnow"]]

\* approval.status / approver_id / comments / approved_at assignment on the row
\* found, if any; "utcnow" stands for the time of the request
Resolve(apps, k, decision, comments) ==
    IF k = 0 THEN apps
    ELSE [apps EXCEPT ![k] = [@ EXCEPT !.status = decision,
                                       !.approver_id = "exec",
                                       !.comments = comments,
                                       !.approved_at = "utcnow"]]

\* the row .first() returns: any row of the candidates, 0 (None) when there is none
FirstOf(candidates) == IF candidates = {} THEN {0} ELSE candidates

\* POST /orders/{order_id}/submit-for-approval
submit_order_for_approval(o) ==
    IF o \notin DOMAIN orders
    THEN Rejected("submit_order_for_approval", o, 404, "order_not_found")
    ELSE IF ~IsFullyDecoded(order_items, o)
    THEN Rejected("submit_order_for_approval", o, 400, "not_fully_decoded")
    ELSE /\ Len(approvals) < MaxApprovals
         /\ orders' = [orders EXCEPT ![o] =
                         [@ EXCEPT !.workflow_stage = "decoding_approval",
                                                  !.status = "pending_approval"]]
         /\ approvals' = Append(approvals, NewApproval(o, "decoding_approval"))
         /\ resp' = Response("submit_order_for_approval", o, 200, "")
         /\ UNCHANGED <<order_items, inventory, dispatches, dispatch_items,
                        attachments, received, txn>>

\* an approval that carries a decoded order past the quotation step
ApproveStage_SkipsQuotation(order) ==
    IF order.workflow_stage \in {"decoding_approval", "quotation_generated"}
    THEN [order EXCEPT !.workflow_stage = "waiting_purchase_order", !.status = "quote_sent"]
    ELSE order

\* the workflow part of approve_order
ApproveStage(order) ==
    IF order.workflow_stage = "decoding_approval"
        THEN [order EXCEPT !.workflow_stage = "quotation", !.status = "approved"]
    ELSE IF order.workflow_stage = "quotation_generated"
        THEN [order EXCEPT !.workflow_stage = "waiting_purchase_order",
                                          !.status = "quote_sent"]
    ELSE IF order.workflow_stage = "po_approval"
        THEN [order EXCEPT !.workflow_stage = "inventory_check",
                                          !.status = "approved"]
    ELSE order

\* POST /orders/{order_id}/approve
approve_order(o, comments) ==
    IF o \notin DOMAIN orders
    THEN Rejected("approve_order", o, 404, "order_not_found")
    ELSE \E k \in FirstOf(PendingApprovals(approvals, o)) :
         /\ approvals' = Resolve(approvals, k, "approved", comments)
         /\ orders' = [orders EXCEPT ![o] = ApproveStage(@)]
         /\ resp' = Response("approve_order", o, 200, "")
         /\ UNCHANGED <<order_items, inventory, dispatches, dispatch_items,
                        attachments, received, txn>>

\* the workflow part of reject_order
RejectStage(order) ==
    IF order.workflow_stage = "quotation_generated"
    THEN [order EXCEPT !.status = "approved", !.workflow_stage = "quotation",
                       !.price_list_id = NULL, !.discount_percentage = 0]
    ELSE [order EXCEPT !.status = "draft", !.workflow_stage = "decoding"]

\* a rejection that leaves the item prices as they are
ResetPrices_Skipped(items, inv, o) == items

\* reject_order at quotation_generated: item prices back to the catalog price
ResetPrices(items, inv, o) ==
    [i \in DOMAIN items |->
        IF items[i].order_id = o /\ items[i].inventory_id # NULL
           /\ items[i].inventory_id \in DOMAIN inv
        THEN [items[i] EXCEPT !.unit_price = inv[items[i].inventory_id].unit_price]
        ELSE items[i]]

\* POST /orders/{order_id}/reject
reject_order(o, reason) ==
    IF o \notin DOMAIN orders
    THEN Rejected("reject_order", o, 404, "order_not_found")
    ELSE \E k \in FirstOf(PendingApprovals(approvals, o)) :
         /\ approvals' = Resolve(approvals, k, "rejected", reason)
         /\ order_items' = IF orders[o].workflow_stage = "quotation_generated"
                           THEN ResetPrices(order_items, inventory, o)
                           ELSE order_items
         /\ orders' = [orders EXCEPT ![o] = RejectStage(@)]
         /\ resp' = Response("reject_order", o, 200, "")
         /\ UNCHANGED <<inventory, dispatches, dispatch_items, attachments, received, txn>>

\* The UPDATE a commit emits for one ORM object: the columns whose assigned value
\* differs from the value loaded are written as absolute values over the row as it
\* is now; the others are left as they are.
WriteChanged(cur, loaded, new) ==
    [f \in DOMAIN cur |-> IF new[f] # loaded[f] THEN new[f] ELSE cur[f]]

\* approve_order / reject_order in session s up to the two queries: the order row
\* (reject_order: with its items) and the pending Approval that .first() returns
resolve_order_read(s, op, o, comments) ==
    /\ txn[s] = NoTxn
    /\ IF o \notin DOMAIN orders
       THEN Rejected(op, o, 404, "order_not_found")
       ELSE \E k \in FirstOf(PendingApprovals(approvals, o)) :
            /\ txn' = [txn EXCEPT ![s] =
                         [pc |-> "resolve_read", op |-> op, order_id |-> o,
                          comments |-> comments, order |-> orders[o],
                          items |-> order_items, k |-> k,
                          row |-> IF k = 0 THEN NewApproval(o, NULL) ELSE approvals[k]]]
            /\ UNCHANGED <<orders, order_items, inventory, dispatches, dispatch_items,
                           approvals, attachments, received, resp>>

\* the rest of the handler of session s: the assignments on the objects it loaded,
\* then db.commit()
resolve_order_write(s) ==
    /\ txn[s].pc = "resolve_read"
    /\ LET t == txn[s]
           o == t.order_id
           decision == IF t.op = "approve_order" THEN "approved" ELSE "rejected"
           newRow == Resolve(<<t.row>>, 1, decision, t.comments)[1]
           newOrder == IF t.op = "approve_order" THEN ApproveStage(t.order)
                       ELSE RejectStage(t.order)
           newItems == IF t.op = "reject_order"
                          /\ t.order.workflow_stage = "quotation_generated"
                       THEN ResetPrices(t.items, inventory, o)
                       ELSE t.items
       IN
       /\ approvals' = IF t.k = 0 THEN approvals
                       ELSE [approvals EXCEPT ![t.k] = WriteChanged(@, t.row, newRow)]
       /\ orders' = [orders EXCEPT ![o] = WriteChanged(@, t.order, newOrder)]
       /\ order_items' = [i \in DOMAIN order_items |->
                            IF i \in DOMAIN t.items
                            THEN WriteChanged(order_items[i], t.items[i], newItems[i])
                            ELSE order_items[i]]
       /\ resp' = Response(t.op, o, 200, "")
    /\ txn' = [txn EXCEPT ![s] = NoTxn]
    /\ UNCHANGED <<inventory, dispatches, dispatch_items, attachments, received>>

\* POST /orders/{order_id}/quote-sent
mark_quote_sent_to_customer(o) ==
    IF o \notin DOMAIN orders
    THEN Rejected("mark_quote_sent_to_customer", o, 404, "order_not_found")
    ELSE IF orders[o].workflow_stage # "quotation"
    THEN Rejected("mark_quote_sent_to_customer", o, 400, "wrong_stage")
    ELSE /\ orders' = [orders EXCEPT ![o] =
                         [@ EXCEPT !.workflow_stage = "waiting_purchase_order",
                                                  !.status = "quote_sent"]]
         /\ resp' = Response("mark_quote_sent_to_customer", o, 200, "")
         /\ UNCHANGED <<order_items, inventory, dispatches, dispatch_items,
                        approvals, attachments, received, txn>>

\* POST /attachments/order/{order_id}
upload_attachment(o) ==
    /\ attachments[o] < MaxAttachments
    /\ attachments' = [attachments EXCEPT ![o] = @ + 1]
    /\ resp' = Response("upload_attachment", o, 201, "")
    /\ UNCHANGED <<orders, order_items, inventory, dispatches, dispatch_items,
                   approvals, received, txn>>

\* a request that is let through whether or not a document was uploaded
NoAttachment_Unchecked(att, o) == FALSE

\* attachment_count == 0 for the order
NoAttachment(att, o) == att[o] = 0

\* POST /orders/{order_id}/request-po-approval
request_po_approval(o) ==
    IF o \notin DOMAIN orders
    THEN Rejected("request_po_approval", o, 404, "order_not_found")
    ELSE IF orders[o].workflow_stage # "waiting_purchase_order"
    THEN Rejected("request_po_approval", o, 400, "wrong_stage")
    ELSE IF NoAttachment(attachments, o)
    THEN Rejected("request_po_approval", o, 400, "no_attachment")
    ELSE /\ Len(approvals) < MaxApprovals
         /\ approvals' = Append(approvals, NewApproval(o, "po_approval"))
         /\ orders' = [orders EXCEPT ![o] =
                         [@ EXCEPT !.workflow_stage = "po_approval",
                                                  !.status = "pending_po_approval"]]
         /\ resp' = Response("request_po_approval", o, 200, "")
         /\ UNCHANGED <<order_items, inventory, dispatches, dispatch_items,
                        attachments, received, txn>>

\* POST /orders/{order_id}/quotation-generated ; qd is the request's dict, a key
\* it does not carry is NULL (price list) or Absent (discount)
mark_quotation_generated(o, qd) ==
    IF o \notin DOMAIN orders
    THEN Rejected("mark_quotation_generated", o, 404, "order_not_found")
    ELSE IF orders[o].workflow_stage # "quotation"
    THEN Rejected("mark_quotation_generated", o, 400, "wrong_stage")
    ELSE /\ orders' = [orders EXCEPT ![o] =
                         [@ EXCEPT !.price_list_id = IF qd.price_list_id # NULL
                                                        THEN qd.price_list_id ELSE @,
                                      !.discount_percentage = IF qd.discount_percent # Absent
                                                              THEN qd.discount_percent ELSE @,
                                      !.workflow_stage = "quotation_generated",
                                      !.status = "pending_quotation_approval"]]
         /\ resp' = Response("mark_quotation_generated", o, 200, "")
         /\ UNCHANGED <<order_items, inventory, dispatches, dispatch_items,
                        approvals, attachments, received, txn>>

\* PriceListItem.tax_percentage of a price list for a catalog item, None when the
\* list has no entry for it
PriceListTax(pl, i) == IF pl = "pl1" /\ i = "X" THEN 12 ELSE None

\* generate_estimate_pdf_with_discount: price-list prices written to the order's items
ApplyPriceList(items, o, pl) ==
    [i \in DOMAIN items |->
        IF items[i].order_id = o /\ PriceListPrice(pl, items[i].inventory_id) # None
        THEN [items[i] EXCEPT
                !.unit_price = PriceListPrice(pl, items[i].inventory_id),
                !.gst_percentage = IF PriceListTax(pl, items[i].inventory_id) # None
                                   THEN PriceListTax(pl, items[i].inventory_id) ELSE @]
        ELSE items[i]]

\* GET /orders/{order_id}/estimate-pdf ; discount Absent and price_list_id NULL are
\* the query parameters left out
generate_estimate_pdf_with_discount(o, discount, price_list_id) ==
    IF o \notin DOMAIN orders
    THEN Rejected("generate_estimate_pdf_with_discount", o, 404, "order_not_found")
    ELSE LET final_price_list_id == IF price_list_id # NULL THEN price_list_id
                                    ELSE orders[o].price_list_id
         IN
         /\ orders' = [orders EXCEPT ![o] =
                         [@ EXCEPT !.discount_percentage = IF discount # Absent
                                                           THEN discount ELSE @,
                                   !.price_list_id = IF price_list_id # NULL
                                                     THEN price_list_id ELSE @]]
         /\ order_items' = IF final_price_list_id # NULL
                           THEN ApplyPriceList(order_items, o, final_price_list_id)
                           ELSE order_items
         /\ resp' = Response("generate_estimate_pdf_with_discount", o, 200, "")
         /\ UNCHANGED <<inventory, dispatches, dispatch_items,
                        approvals, attachments, received, txn>>

\* PUT /inventory/{item_id} with a body that sets unit_price only
update_inventory_item(i, unit_price) ==
    IF unit_price < 0
    THEN Rejected("update_inventory_item", NULL, 422, "validation")
    ELSE IF i \notin DOMAIN inventory
    THEN Rejected("update_inventory_item", NULL, 404, "inventory_not_found")
    ELSE /\ inventory' = [inventory EXCEPT ![i].unit_price = unit_price]
         /\ resp' = Response("update_inventory_item", NULL, 200, "")
         /\ UNCHANGED <<orders, order_items, dispatches, dispatch_items,
                        approvals, attachments, received, txn>>

\* approve_purchase_order: every decoded item of the order becomes pending
ResetItemStatus(items, o) ==
    [i \in DOMAIN items |->
        IF items[i].order_id = o /\ items[i].inventory_id # NULL
        THEN [items[i] EXCEPT !.status = "pending"]
        ELSE items[i]]

\* POST /orders/{order_id}/approve-po
approve_purchase_order(o) ==
    IF o \notin DOMAIN orders
    THEN Rejected("approve_purchase_order", o, 404, "order_not_found")
    ELSE IF orders[o].workflow_stage # "po_approval"
    THEN Rejected("approve_purchase_order", o, 400, "wrong_stage")
    ELSE \E k \in FirstOf(PendingApprovalsAt(approvals, o, "po_approval")) :
         /\ approvals' = Resolve(approvals, k, "approved", IF k = 0 THEN NULL ELSE approvals[k].comments)
         /\ order_items' = ResetItemStatus(order_items, o)
         /\ orders' = [orders EXCEPT ![o] =
                         [@ EXCEPT !.workflow_stage = "inventory_check",
                                                  !.status = "po_approved"]]
         /\ resp' = Response("approve_purchase_order", o, 200, "")
         /\ UNCHANGED <<inventory, dispatches, dispatch_items, attachments, received, txn>>

\* POST /orders/{order_id}/reject-po
reject_purchase_order(o, reason) ==
    IF o \notin DOMAIN orders
    THEN Rejected("reject_purchase_order", o, 404, "order_not_found")
    ELSE IF orders[o].workflow_stage # "po_approval"
    THEN Rejected("reject_purchase_order", o, 400, "wrong_stage")
    ELSE \E k \in FirstOf(PendingApprovalsAt(approvals, o, "po_approval")) :
         /\ approvals' = Resolve(approvals, k, "rejected", reason)
         /\ orders' = [orders EXCEPT ![o] =
                         [@ EXCEPT !.workflow_stage = "waiting_purchase_order",
                                                  !.status = "po_rejected"]]
         /\ resp' = Response("reject_purchase_order", o, 200, "")
         /\ UNCHANGED <<order_items, inventory, dispatches, dispatch_items,
                        attachments, received, txn>>

\* POST /orders/{order_id}/payment-received
mark_payment_received(o) ==
    IF o \notin DOMAIN orders
    THEN Rejected("mark_payment_received", o, 404, "order_not_found")
    ELSE IF orders[o].workflow_stage # "payment_pending"
    THEN Rejected("mark_payment_received", o, 400, "wrong_stage")
    ELSE /\ orders' = [orders EXCEPT ![o] =
                         [@ EXCEPT !.workflow_stage = "completed",
                                                  !.status = "completed"]]
         /\ resp' = Response("mark_payment_received", o, 200, "")
         /\ UNCHANGED <<order_items, inventory, dispatches, dispatch_items,
                        approvals, attachments, received, txn>>

(* ------------------------------------------------------------------ *)
(* Outstanding items: GET /outstanding/by-customer                      *)
(* ------------------------------------------------------------------ *)
\* the rows of OrderItem JOIN Order JOIN Customer JOIN Inventory LEFT OUTER JOIN
\* DispatchItem that pass the filter; <<i, k>> pairs order item i with dispatch item
\* k, k = 0 being the NULL-extended row of an order item without dispatch items
OutstandingJoin(T) ==
    {jr \in (DOMAIN T.order_items) \X (0..Len(T.dispatch_items)) :
        LET i == jr[1]
            k == jr[2]
            item == T.order_items[i]
            matches == {m \in 1..Len(T.dispatch_items) :
                            T.dispatch_items[m].order_item_id = i}
        IN  /\ item.order_id \in DOMAIN T.orders
            /\ T.orders[item.order_id].customer_id \in CustomerIds
            /\ item.inventory_id \in DOMAIN T.inventory
            /\ IF k = 0 THEN matches = {} ELSE k \in matches
            /\ T.orders[item.order_id].status \notin
                    {"draft", "cancelled", "completed", "rejected"}
            /\ item.inventory_id # NULL
            /\ item.status \in {"pending", "partial"}}

\* func.coalesce(func.sum(DispatchItem.quantity), 0) over the joined rows of a group
RECURSIVE SumDispatched(_, _)
SumDispatched(T, group) ==
    IF group = {} THEN 0
    ELSE LET jr == CHOOSE x \in group : TRUE IN
         (IF jr[2] = 0 THEN 0 ELSE T.dispatch_items[jr[2]].quantity)
            + SumDispatched(T, group \ {jr})

\* the GROUP BY columns of a joined row
GroupKey(T, jr) ==
    LET item == T.order_items[jr[1]] IN
    [order_item_id |-> jr[1],
     order_id |-> item.order_id,
     order_number |-> T.orders[item.order_id].order_number,
     order_status |-> T.orders[item.order_id].status,
     item_status |-> item.status,
     customer_id |-> T.orders[item.order_id].customer_id,
     item_id |-> item.inventory_id,
     available_stock |-> T.inventory[item.inventory_id].stock_quantity,
     ordered |-> item.quantity,
     unit_price |-> item.unit_price]

\* a view that keeps the rows with nothing outstanding
HasOutstanding_Unfiltered(ordered, dispatched) == TRUE

\* the filter applied in Python to the query's rows
HasOutstanding(ordered, dispatched) == (ordered - dispatched) > 0

\* the response of the view: one record per group that passes the filter
get_outstanding_by_customer(T) ==
    LET joined == OutstandingJoin(T)
        keys == {GroupKey(T, jr) : jr \in joined}
        dispatchedOf(key) ==
            SumDispatched(T, {jr \in joined : GroupKey(T, jr) = key})
    IN  {[order_item_id |-> key.order_item_id,
          order_id |-> key.order_id,
          order_number |-> key.order_number,
          customer_id |-> key.customer_id,
          item_id |-> key.item_id,
          ordered |-> key.ordered,
          dispatched |-> dispatchedOf(key),
          outstanding |-> key.ordered - dispatchedOf(key),
          unit_price |-> key.unit_price,
          outstanding_value |-> (key.ordered - dispatchedOf(key)) * key.unit_price,
          item_status |-> key.item_status,
          order_status |-> key.order_status,
          available_stock |-> key.available_stock] :
            key \in {x \in keys : HasOutstanding(x.ordered, dispatchedOf(x))}}

\* GET /outstanding/by-item: the rows of Order JOIN OrderItem JOIN Inventory LEFT
\* OUTER JOIN DispatchItem that pass the filter on the order's status
ByItemJoin(T) ==
    {jr \in (DOMAIN T.order_items) \X (0..Len(T.dispatch_items)) :
        LET i == jr[1]
            k == jr[2]
            item == T.order_items[i]
            matches == {m \in 1..Len(T.dispatch_items) :
                            T.dispatch_items[m].order_item_id = i}
        IN  /\ item.order_id \in DOMAIN T.orders
            /\ item.inventory_id \in DOMAIN T.inventory
            /\ IF k = 0 THEN matches = {} ELSE k \in matches
            /\ T.orders[item.order_id].status \notin
                    {"draft", "cancelled", "completed", "rejected"}}

\* func.sum(OrderItem.quantity) over the joined rows of a group
RECURSIVE SumOrdered(_, _)
SumOrdered(T, group) ==
    IF group = {} THEN 0
    ELSE LET jr == CHOOSE x \in group : TRUE IN
         T.order_items[jr[1]].quantity + SumOrdered(T, group \ {jr})

\* the GROUP BY columns of the by-item query that vary in the model
ByItemKey(T, jr) ==
    [item_id |-> T.order_items[jr[1]].inventory_id,
     unit_price |-> T.order_items[jr[1]].unit_price]

\* the response of the view: one record per group that passes HAVING
get_outstanding_by_item(T) ==
    LET joined == ByItemJoin(T)
        keys == {ByItemKey(T, jr) : jr \in joined}
        groupOf(key) == {jr \in joined : ByItemKey(T, jr) = key}
        ordersOf(key) == {T.order_items[jr[1]].order_id : jr \in groupOf(key)}
    IN  {[item_id |-> key.item_id,
          total_ordered |-> SumOrdered(T, groupOf(key)),
          total_dispatched |-> SumDispatched(T, groupOf(key)),
          outstanding_quantity |->
                SumOrdered(T, groupOf(key)) - SumDispatched(T, groupOf(key)),
          unit_price |-> key.unit_price,
          customers_count |->
                Cardinality({T.orders[o].customer_id : o \in ordersOf(key)}),
          orders_count |-> Cardinality(ordersOf(key))] :
            key \in {x \in keys :
                        SumOrdered(T, groupOf(x)) - SumDispatched(T, groupOf(x)) > 0}}

\* the sum of a numeric column over a set of response rows
RECURSIVE SumField(_, _)
SumField(rows, f) ==
    IF rows = {} THEN 0
    ELSE LET r == CHOOSE x \in rows : TRUE IN r[f] + SumField(rows \ {r}, f)

(* ------------------------------------------------------------------ *)
(* Requests explored                                                    *)
(* ------------------------------------------------------------------ *)
SeqsUpTo(S, lo, hi) == UNION {[1..n -> S] : n \in lo..hi}

DecodeLine(i, q) == [inventory_id |-> i, quantity |-> q, unit_price |-> None, gst_percentage |-> None]

DecodeLines == {DecodeLine(i, q) : i \in {"X", NoInv}, q \in 1..MaxQty}

DecodeRequests == SeqsUpTo(DecodeLines, 1, MaxLines)

DispatchLines ==
    [order_item_id : ItemIds, inventory_id : {"X", NoInv}, quantity : 1..MaxQty]

DispatchRequests == SeqsUpTo(DispatchLines, 0, MaxLines)

NoQuotationData == [price_list_id |-> NULL, discount_percent |-> Absent]

StockQuantities == (0 - 1)..MaxStock

\* update_stock requests, kept within the explored stock range
StockRequest(i, op, q) ==
    /\ StockResult(inventory, i, op, q).code = 200
            => /\ StockResult(inventory, i, op, q).stock <= MaxStock
               /\ StockResult(inventory, i, op, q).stock - inventory[i].stock_quantity
                     <= MaxReceived - received[i]
    /\ update_stock(i, op, q)

(* ------------------------------------------------------------------ *)
(* Spec: the workflow, one request at a time; every handler, with one   *)
(* catalog item and single-line decode and dispatch requests            *)
(* ------------------------------------------------------------------ *)
Next ==
    \/ \E o \in OrderIds, c \in CustomerIds \cup {NoCustomer} : create_order(o, c)
    \/ \E o \in OrderIds : delete_order(o)
    \/ \E o \in OrderIds, i \in {"X", NoInv} : update_decoded_items(o, <<DecodeLine(i, 1)>>)
    \/ \E o \in OrderIds, i \in {"X", NoInv} : decode_order_item_multiple(o, 1, <<DecodeLine(i, 1)>>)
    \/ \E o \in OrderIds, i \in {"X", NoInv} : decode_order_item(o, 1, DecodeLine(i, None))
    \/ \E o \in OrderIds : submit_order_for_approval(o)
    \/ \E o \in OrderIds : approve_order(o, NULL)
    \/ \E o \in OrderIds : reject_order(o, "reason")
    \/ \E o \in OrderIds : mark_quote_sent_to_customer(o)
    \/ \E o \in OrderIds : mark_quotation_generated(o, NoQuotationData)
    \/ \E o \in OrderIds : upload_attachment(o)
    \/ \E o \in OrderIds : request_po_approval(o)
    \/ \E o \in OrderIds : approve_purchase_order(o)
    \/ \E o \in OrderIds : reject_purchase_order(o, "reason")
    \/ \E o \in OrderIds : mark_payment_received(o)
    \/ \E o \in OrderIds, i \in {"X", NoInv} :
            create_dispatch(o, <<[order_item_id |-> 1, inventory_id |-> i, quantity |-> 1]>>)
    \/ StockRequest("X", "add", 1)

Spec == Init /\ [][Next]_vars

(* ------------------------------------------------------------------ *)
(* SpecDispatch: the way to inventory_check, then decode, stock and     *)
(* dispatch requests of every shape, one request at a time              *)
(* ------------------------------------------------------------------ *)
NextDispatch ==
    \/ \E o \in OrderIds : create_order(o, "c1")
    \/ \E o \in OrderIds, ds \in DecodeRequests : update_decoded_items(o, ds)
    \/ \E o \in OrderIds : submit_order_for_approval(o)
    \/ \E o \in OrderIds : approve_order(o, NULL)
    \/ \E o \in OrderIds : mark_quote_sent_to_customer(o)
    \/ \E o \in OrderIds : upload_attachment(o)
    \/ \E o \in OrderIds : request_po_approval(o)
    \/ \E o \in OrderIds : approve_purchase_order(o)
    \/ \E o \in OrderIds, lines \in DispatchRequests : create_dispatch(o, lines)
    \/ \E i \in {"X", NoInv}, op \in StockOps, q \in StockQuantities : StockRequest(i, op, q)
    \/ \E o \in OrderIds : mark_payment_received(o)

SpecDispatch == Init /\ [][NextDispatch]_vars

(* ------------------------------------------------------------------ *)
(* SpecConc: two sessions dispatching and updating stock concurrently   *)
(* (PostgreSQL READ COMMITTED, no row locks).  It starts from an order  *)
(* in inventory_check, the state SpecDispatch reaches by create_order,  *)
(* update_decoded_items, submit, approve, quote-sent, upload,           *)
(* request-po-approval and approve-po.                                  *)
(* ------------------------------------------------------------------ *)
InitConc ==
    /\ orders = [o \in OrderIds |->
                    [customer_id |-> "c1", order_number |-> 1, status |-> "po_approved",
                     workflow_stage |-> "inventory_check", price_list_id |-> NULL,
                     discount_percentage |-> 0]]
    /\ order_items = [i \in {1} |->
                        [order_id |-> "o1", item_description |-> DecodedDescription("X"),
                         notes |-> NULL, quantity |-> 2, inventory_id |-> "X",
                         unit_price |-> StdPrice("X"), gst_percentage |-> 5,
                         status |-> "pending"]]
    /\ inventory = [i \in InvIds |-> [unit_price |-> StdPrice(i), stock_quantity |-> 0]]
    /\ dispatches = << >>
    /\ dispatch_items = << >>
    /\ approvals = << [entity_id |-> "o1", stage |-> "decoding_approval", status |-> "approved",
                       approver_id |-> "exec", comments |-> NULL,
                       approved_at |-> "utcnow"],
                      [entity_id |-> "o1", stage |-> "po_approval", status |-> "approved",
                       approver_id |-> "exec", comments |-> NULL,
                       approved_at |-> "utcnow"] >>
    /\ attachments = [o \in OrderIds |-> 1]
    /\ received = [i \in InvIds |-> 0]
    /\ txn = [s \in Sessions |-> NoTxn]
    /\ resp = Response("approve_purchase_order", "o1", 200, "")

NextConc ==
    \/ \E s \in Sessions, o \in OrderIds, lines \in DispatchRequests :
            create_dispatch_validate(s, o, lines)
    \/ \E s \in Sessions : create_dispatch_commit(s)
    \/ \E i \in {"X", NoInv}, op \in StockOps, q \in StockQuantities : StockRequest(i, op, q)

SpecConc == InitConc /\ [][NextConc]_vars

(* ------------------------------------------------------------------ *)
(* SpecPricing: decoding at explicit prices, price lists, changes of   *)
(* the catalog price, and the quotation round trip                      *)
(* ------------------------------------------------------------------ *)
\* the unit_price a decode request carries when it carries one: a price that is
\* neither a catalog price nor a price-list price
ExplicitPrice == 60

PricedDecodeLines ==
    {[inventory_id |-> i, quantity |-> 1, unit_price |-> p, gst_percentage |-> None] :
        i \in InvIds, p \in {None, ExplicitPrice}}

PricedDecodeRequests == SeqsUpTo(PricedDecodeLines, 1, MaxLines)

QuotationData ==
    {NoQuotationData, [price_list_id |-> "pl1", discount_percent |-> 10]}

NextPricing ==
    \/ \E o \in OrderIds : create_order(o, "c1")
    \/ \E o \in OrderIds, ds \in PricedDecodeRequests : update_decoded_items(o, ds)
    \/ \E o \in OrderIds, d \in PricedDecodeLines : decode_order_item(o, 1, d)
    \/ \E o \in OrderIds : approve_order(o, NULL)
    \/ \E o \in OrderIds, qd \in QuotationData : mark_quotation_generated(o, qd)
    \/ \E o \in OrderIds, discount \in {Absent, 10}, pl \in {NULL, "pl1"} :
            generate_estimate_pdf_with_discount(o, discount, pl)
    \/ \E i \in {"X", NoInv}, p \in {0 - 1, 50, 55} : update_inventory_item(i, p)
    \/ \E o \in OrderIds : reject_order(o, "reason")

SpecPricing == Init /\ [][NextPricing]_vars

(* ------------------------------------------------------------------ *)
(* SpecNumbers: two sessions creating orders and dispatches, each       *)
(* reading its count before either has inserted                         *)
(* ------------------------------------------------------------------ *)
MoreOrderIds == {"o2", "o3"}          \* primary keys of the orders created here

NextNumbers ==
    \/ \E s \in Sessions, o \in MoreOrderIds, c \in CustomerIds \cup {NoCustomer} :
            create_order_number(s, o, c)
    \/ \E s \in Sessions : create_order_commit(s)
    \/ \E s \in Sessions, o \in OrderIds :
            create_dispatch_validate(s, o, <<[order_item_id |-> 1, inventory_id |-> "X",
                                             quantity |-> 1]>>)
    \/ \E s \in Sessions : create_dispatch_number(s)
    \/ \E s \in Sessions : create_dispatch_insert(s)
    \/ StockRequest("X", "add", 1)

SpecNumbers == InitConc /\ [][NextNumbers]_vars

(* ------------------------------------------------------------------ *)
(* SpecApprove: two sessions approving and rejecting one order, each    *)
(* having read the order and its pending Approval before the other      *)
(* commits                                                              *)
(* ------------------------------------------------------------------ *)
NextApprove ==
    \/ \E o \in OrderIds : create_order(o, "c1")
    \/ \E o \in OrderIds : update_decoded_items(o, <<DecodeLine("X", 1)>>)
    \/ \E o \in OrderIds : submit_order_for_approval(o)
    \/ \E o \in OrderIds : mark_quotation_generated(o, NoQuotationData)
    \/ \E s \in Sessions, o \in OrderIds : resolve_order_read(s, "approve_order", o, NULL)
    \/ \E s \in Sessions, o \in OrderIds : resolve_order_read(s, "reject_order", o, "reason")
    \/ \E s \in Sessions : resolve_order_write(s)

SpecApprove == Init /\ [][NextApprove]_vars

(* ------------------------------------------------------------------ *)
(* Properties                                                           *)
(* ------------------------------------------------------------------ *)

\* C1: in every reachable state, after any sequence and any interleaving of
\* create_dispatch and stock updates (add / subtract / set), every catalog item's
\* on-hand stock quantity is >= 0.
C1_StockNonNegative ==
    \A i \in DOMAIN inventory : inventory[i].stock_quantity >= 0

\* two dispatches were committed, the last one taking the stock of X to zero
C1_Witness ==
    /\ resp.op = "create_dispatch" /\ resp.code = 201
    /\ Len(dispatches) = 2
    /\ DispatchedFromInv(dispatch_items, "X") > 0
    /\ inventory["X"].stock_quantity = 0

\* C2: in every reachable state, for every order line, the quantities of the
\* dispatch lines that reference it sum to at most the order line's quantity,
\* after any sequence of decode, re-decode and create_dispatch.
C2_DispatchedWithinQuantity ==
    \A i \in DOMAIN order_items :
        DispatchedQty(dispatch_items, i) <= order_items[i].quantity

\* C3: two concurrent create_dispatch requests against one catalog item never both
\* pass the stock check and both decrement when the stock covers only one of them:
\* the total quantity dispatched from an item never exceeds the stock it received.
C3_NoOverCommit ==
    \A i \in InvIds : DispatchedFromInv(dispatch_items, i) <= received[i]

\* C4: a create_dispatch rejected because a requested line fails validation (unknown
\* order line, quantity above outstanding, unknown catalog item, insufficient stock)
\* creates no dispatch and no dispatch line and changes no stock, no line status and
\* no order status or stage, also when earlier lines of the request were valid.
C4_RejectedDispatchChangesNothing ==
    [][(/\ resp'.op = "create_dispatch"
        /\ resp'.detail \in {"order_item_not_found", "exceeds_outstanding",
                             "inventory_not_found", "insufficient_stock"})
       => UNCHANGED <<orders, order_items, inventory, dispatches, dispatch_items>>]_vars

\* a request was rejected at its second line, its first line being valid
C4_Witness ==
    /\ resp.op = "create_dispatch"
    /\ resp.code \in {400, 404}
    /\ resp.line = 2

\* C5: every change of an order's workflow_stage follows an edge of the fixed
\* stage graph.
C5_StageGraph ==
    [][LET Edges == {<<"order_request", "decoding_approval">>,
                     <<"decoding", "decoding_approval">>,
                     <<"decoding_approval", "quotation">>,
                     <<"decoding_approval", "decoding">>,
                     <<"quotation", "quotation_generated">>,
                     <<"quotation", "waiting_purchase_order">>,
                     <<"quotation_generated", "waiting_purchase_order">>,
                     <<"quotation_generated", "quotation">>,
                     <<"waiting_purchase_order", "po_approval">>,
                     <<"po_approval", "inventory_check">>,
                     <<"po_approval", "waiting_purchase_order">>,
                     <<"inventory_check", "payment_pending">>,
                     <<"payment_pending", "completed">>}
       IN  \A o \in DOMAIN orders :
              (o \in DOMAIN orders' /\ orders'[o].workflow_stage # orders[o].workflow_stage)
              => <<orders[o].workflow_stage, orders'[o].workflow_stage>> \in Edges]_vars

\* C6: each stage-guarded action (mark_quotation_generated and mark_quote_sent need
\* quotation, request_po_approval needs waiting_purchase_order, approve- and
\* reject_purchase_order need po_approval, create_dispatch needs inventory_check,
\* mark_payment_received needs payment_pending) is rejected when the order is in
\* another stage, and leaves orders, lines, approvals, dispatches and stock unchanged.
C6_StageGuardsReject ==
    [][LET Required == [op \in {"mark_quotation_generated", "mark_quote_sent_to_customer",
                                "request_po_approval", "approve_purchase_order",
                                "reject_purchase_order", "create_dispatch",
                                "mark_payment_received"} |->
                           CASE op \in {"mark_quotation_generated",
                                        "mark_quote_sent_to_customer"} -> "quotation"
                             [] op = "request_po_approval" -> "waiting_purchase_order"
                             [] op \in {"approve_purchase_order",
                                        "reject_purchase_order"} -> "po_approval"
                             [] op = "create_dispatch" -> "inventory_check"
                             [] op = "mark_payment_received" -> "payment_pending"]
       IN  (/\ resp'.op \in DOMAIN Required
            /\ resp'.order \in DOMAIN orders
            /\ orders[resp'.order].workflow_stage # Required[resp'.op])
           => (/\ resp'.code = 400
               /\ UNCHANGED <<orders, order_items, approvals, dispatches,
                              dispatch_items, inventory>>)]_vars

\* create_dispatch was rejected for an order waiting for its purchase order
C6_Witness ==
    /\ resp.op = "create_dispatch" /\ resp.code = 400 /\ resp.detail = "wrong_stage"
    /\ resp.order \in DOMAIN orders
    /\ orders[resp.order].workflow_stage = "waiting_purchase_order"
    /\ dispatches = << >>

\* C7: approve_order on an order whose stage is none of decoding_approval,
\* quotation_generated, po_approval, and reject_order on an order whose stage is
\* neither decoding_approval nor quotation_generated, change neither the order's
\* stage, its status, its line prices, nor any approval.
C7_GenericGuardsHard ==
    [][(/\ resp'.order \in DOMAIN orders
        /\ \/ /\ resp'.op = "approve_order"
              /\ orders[resp'.order].workflow_stage \notin
                    {"decoding_approval", "quotation_generated", "po_approval"}
           \/ /\ resp'.op = "reject_order"
              /\ orders[resp'.order].workflow_stage \notin
                    {"decoding_approval", "quotation_generated"})
       => (/\ orders'[resp'.order].workflow_stage = orders[resp'.order].workflow_stage
           /\ orders'[resp'.order].status = orders[resp'.order].status
           /\ \A i \in DOMAIN order_items :
                 i \in DOMAIN order_items'
                 /\ order_items'[i].unit_price = order_items[i].unit_price
           /\ approvals' = approvals)]_vars

\* C8: once an order's status is cancelled, no later operation changes its
\* workflow_stage or its status.
C8_CancelledIsTerminal ==
    [][\A o \in DOMAIN orders :
          orders[o].status = "cancelled"
          => (/\ o \in DOMAIN orders'
              /\ orders'[o].status = "cancelled"
              /\ orders'[o].workflow_stage = orders[o].workflow_stage)]_vars

\* C9: after a successful create_dispatch each order line the request references is
\* completed if its cumulative dispatched quantity (earlier dispatch lines plus every
\* line of this request for it) is >= its quantity, and partial if that quantity is
\* > 0 and below its quantity.
C9_ItemStatusFollowsCumulative ==
    [][(resp'.op = "create_dispatch" /\ resp'.code = 201)
       => \A i \in DOMAIN order_items' :
             DispatchedQty(dispatch_items', i) > DispatchedQty(dispatch_items, i)
             => order_items'[i].status =
                    (IF DispatchedQty(dispatch_items', i) >= order_items'[i].quantity
                     THEN "completed" ELSE "partial")]_vars

\* C10: after a successful create_dispatch the order is in stage payment_pending with
\* status payment_pending if and only if every line of the order is completed;
\* otherwise its stage stays inventory_check and its status is partially_dispatched.
C10_OrderRollup ==
    [][(resp'.op = "create_dispatch" /\ resp'.code = 201)
       => LET o == resp'.order
              all_completed == \A i \in ItemsOfOrder(order_items', o) :
                                  order_items'[i].status = "completed"
          IN  IF all_completed
              THEN /\ orders'[o].workflow_stage = "payment_pending"
                   /\ orders'[o].status = "payment_pending"
              ELSE /\ orders'[o].workflow_stage = "inventory_check"
                   /\ orders'[o].status = "partially_dispatched"]_vars

\* C11: an order whose workflow_stage is payment_pending or completed has, for each
\* of its lines, a cumulative dispatched quantity >= the line's quantity and the
\* line status completed.
C11_PaidStagesFullyDispatched ==
    \A o \in DOMAIN orders :
        orders[o].workflow_stage \in {"payment_pending", "completed"} =>
            \A i \in ItemsOfOrder(order_items, o) :
                /\ DispatchedQty(dispatch_items, i) >= order_items[i].quantity
                /\ order_items[i].status = "completed"

\* C12: for every order and every stage label at most one Approval row has status
\* pending, after any sequence of submit_for_approval, request_po_approval, approve
\* and reject.
C12_OnePendingPerStage ==
    \A o \in OrderIds : \A k1, k2 \in PendingApprovals(approvals, o) :
        approvals[k1].stage = approvals[k2].stage => k1 = k2

\* C13: an approve or reject action on an order that has no pending Approval row
\* leaves the approvals table as it was (no row created, no row modified) and is
\* not failed by the missing row: approve_order and reject_order answer 200, the
\* purchase-order variants answer 200 or their stage guard's 400.
C13_ResolveWithoutPendingIsNoOp ==
    [][(/\ resp'.op \in {"approve_order", "reject_order",
                         "approve_purchase_order", "reject_purchase_order"}
        /\ resp'.order \in DOMAIN orders
        /\ PendingApprovals(approvals, resp'.order) = {})
       => /\ approvals' = approvals
          /\ resp'.op \in {"approve_order", "reject_order"} => resp'.code = 200
          /\ resp'.code \in {200, 400}]_vars

\* approve_order ran on an order whose only Approval row had already been rejected
C13_Witness ==
    /\ resp.op = "approve_order" /\ resp.code = 200
    /\ Len(approvals) = 1
    /\ approvals[1].status = "rejected"

\* C14: rejecting an order in quotation_generated moves it to quotation with status
\* approved, clears its price list and discount, and sets the unit price of every
\* line that has a catalog reference to the current standard unit price of that
\* catalog item, whatever price the line was decoded at or took from a price list.
C14_QuotationRejectResetsPrices ==
    [][(/\ resp'.op = "reject_order" /\ resp'.code = 200
        /\ resp'.order \in DOMAIN orders
        /\ orders[resp'.order].workflow_stage = "quotation_generated")
       => /\ orders'[resp'.order].workflow_stage = "quotation"
          /\ orders'[resp'.order].status = "approved"
          /\ orders'[resp'.order].price_list_id = NULL
          /\ orders'[resp'.order].discount_percentage = 0
          /\ DOMAIN order_items' = DOMAIN order_items
          /\ \A i \in ItemsOfOrder(order_items', resp'.order) :
                order_items'[i].inventory_id # NULL =>
                    order_items'[i].unit_price =
                        inventory'[order_items'[i].inventory_id].unit_price]_vars

\* a line that had taken the price list's price and tax rate carries, after the
\* rejection, the catalog price as changed since the line was decoded
C14_Witness ==
    /\ resp.op = "reject_order" /\ resp.code = 200
    /\ "o1" \in DOMAIN orders /\ orders["o1"].workflow_stage = "quotation"
    /\ \E i \in ItemsOfOrder(order_items, "o1") :
          /\ order_items[i].gst_percentage = PriceListTax("pl1", "X")
          /\ order_items[i].unit_price = 55
          /\ inventory["X"].unit_price = 55

\* C15: whenever an order moves from po_approval to inventory_check, by whichever
\* approve action, right afterwards every line of the order with a catalog
\* reference has status pending, the order's status is po_approved, and no
\* po_approval Approval of the order that was pending is still pending.
C15_PoApprovalTransition ==
    [][\A o \in DOMAIN orders :
        (/\ orders[o].workflow_stage = "po_approval"
         /\ o \in DOMAIN orders'
         /\ orders'[o].workflow_stage = "inventory_check")
        => /\ \A i \in ItemsOfOrder(order_items', o) :
                order_items'[i].inventory_id # NULL => order_items'[i].status = "pending"
           /\ orders'[o].status = "po_approved"
           /\ \A k \in PendingApprovalsAt(approvals, o, "po_approval") :
                approvals'[k].status = "approved"]_vars

\* C16: request_po_approval on an order in waiting_purchase_order is rejected when
\* the order has no attachment, the stage staying as it is and no Approval being
\* created; with at least one attachment it moves the order to po_approval with
\* status pending_po_approval and creates exactly one Approval, pending, with stage
\* po_approval.
C16_RequestPoApproval ==
    [][(/\ resp'.op = "request_po_approval"
        /\ resp'.order \in DOMAIN orders
        /\ orders[resp'.order].workflow_stage = "waiting_purchase_order")
       => IF attachments[resp'.order] = 0
          THEN /\ resp'.code = 400
               /\ UNCHANGED db
          ELSE /\ resp'.code = 200
               /\ orders'[resp'.order].workflow_stage = "po_approval"
               /\ orders'[resp'.order].status = "pending_po_approval"
               /\ Len(approvals') = Len(approvals) + 1
               /\ SubSeq(approvals', 1, Len(approvals)) = approvals
               /\ approvals'[Len(approvals')] = NewApproval(resp'.order, "po_approval")
               /\ approvals'[Len(approvals')].status = "pending"
               /\ approvals'[Len(approvals')].stage = "po_approval"]_vars

\* the request was refused for want of a purchase order document
C16_Witness ==
    /\ resp.op = "request_po_approval" /\ resp.code = 400
    /\ resp.detail = "no_attachment"
    /\ orders[resp.order].workflow_stage = "waiting_purchase_order"
    /\ attachments[resp.order] = 0

\* C17: for an order in order_request or decoding, after any successful decode
\* action (decode of one line, decode of one line into several, replacement of all
\* decoded items) the order is in decoding_approval with status pending_approval
\* when every line of it has a catalog reference, and its stage is unchanged when
\* some line still has none.
C17_DecodeAdvancesWhenComplete ==
    [][(/\ resp'.op \in {"decode_order_item", "decode_order_item_multiple",
                         "update_decoded_items"}
        /\ resp'.code = 200
        /\ resp'.order \in DOMAIN orders
        /\ orders[resp'.order].workflow_stage \in {"order_request", "decoding"})
       => IF \A i \in ItemsOfOrder(order_items', resp'.order) :
                order_items'[i].inventory_id # NULL
          THEN /\ orders'[resp'.order].workflow_stage = "decoding_approval"
               /\ orders'[resp'.order].status = "pending_approval"
          ELSE orders'[resp'.order].workflow_stage =
                    orders[resp'.order].workflow_stage]_vars

\* C18: no two persisted orders share an order number and no two persisted
\* dispatches share a dispatch number, also when several create requests of the
\* same year run concurrently.
C18_NumbersUnique ==
    /\ \A x, y \in DOMAIN orders :
          orders[x].order_number = orders[y].order_number => x = y
    /\ \A j, k \in 1..Len(dispatches) :
          dispatches[j].dispatch_number = dispatches[k].dispatch_number => j = k

\* of two dispatch requests that had read the same count, one was committed and
\* the other refused by the unique index, two orders being persisted already
C18_Witness ==
    /\ resp.op = "create_dispatch" /\ resp.code = 500
    /\ resp.detail = "unique_violation"
    /\ Len(dispatches) = 1
    /\ Cardinality(DOMAIN orders) = 2

\* C19: an Approval is resolved at most once: a row that is approved or rejected
\* never changes again, and of two approve / reject requests that both read the
\* same pending Approval of an order, the one that commits second neither resolves
\* it again nor applies the order's stage transition a second time.
C19_ResolvedOnce ==
    [][/\ \A k \in 1..Len(approvals) :
            approvals[k].status \in {"approved", "rejected"}
                => /\ k <= Len(approvals')
                   /\ approvals'[k] = approvals[k]
       /\ \A s \in Sessions :
            (/\ txn[s].pc = "resolve_read"
             /\ txn'[s] = NoTxn
             /\ txn[s].k # 0
             /\ approvals[txn[s].k].status # "pending")
            => orders' = orders]_vars

\* C20: the by-customer outstanding view returns exactly one row for each order
\* line that has a catalog reference, has item status pending or partial, belongs
\* to an order whose status is none of draft, cancelled, completed, rejected, and
\* whose quantity minus the sum of its dispatch lines' quantities is > 0; the row's
\* outstanding value is that difference, and no row with outstanding <= 0 is
\* returned.
C20_OutstandingView ==
    LET rows == get_outstanding_by_customer(Tables)
        left(i) == order_items[i].quantity - DispatchedQty(dispatch_items, i)
        qualifies(i) ==
            /\ order_items[i].inventory_id # NULL
            /\ order_items[i].status \in {"pending", "partial"}
            /\ orders[order_items[i].order_id].status \notin
                    {"draft", "cancelled", "completed", "rejected"}
            /\ left(i) > 0
    IN  /\ \A i \in DOMAIN order_items :
              Cardinality({r \in rows : r.order_item_id = i}) =
                    IF qualifies(i) THEN 1 ELSE 0
        /\ \A r \in rows :
              /\ r.order_item_id \in DOMAIN order_items
              /\ r.outstanding = left(r.order_item_id)
              /\ r.outstanding > 0

\* the view lists a partially dispatched line with one unit outstanding, while
\* another line of the same order, fully dispatched, is left out
C20_Witness ==
    /\ \E r \in get_outstanding_by_customer(Tables) :
          r.item_status = "partial" /\ r.dispatched = 1 /\ r.outstanding = 1
    /\ \E i \in DOMAIN order_items :
          /\ order_items[i].status = "completed"
          /\ \A r \in get_outstanding_by_customer(Tables) : r.order_item_id # i

\* C21: the by-item outstanding view aggregates the population of the by-customer
\* view: a catalog item with by-customer rows is reported once, its total_ordered
\* the sum of those rows' ordered quantities, its total_dispatched the sum of their
\* dispatched quantities and its outstanding_quantity the sum of their outstanding;
\* a catalog item without by-customer rows is not reported.
C21_ByItemAggregatesByCustomer ==
    LET byCustomer == get_outstanding_by_customer(Tables)
        byItem == get_outstanding_by_item(Tables)
    IN  \A x \in InvIds :
            LET pop == {r \in byCustomer : r.item_id = x}
                reported == {r \in byItem : r.item_id = x}
            IN  IF pop = {} THEN reported = {}
                ELSE /\ Cardinality(reported) = 1
                     /\ \A r \in reported :
                           /\ r.total_ordered = SumField(pop, "ordered")
                           /\ r.total_dispatched = SumField(pop, "dispatched")
                           /\ r.outstanding_quantity = SumField(pop, "outstanding")

\* C22: a line's unit price and tax rate are fixed at decode time: no operation
\* other than a decode (of that line, or the replacement of the order's decoded
\* items) and the rejection of the quotation changes them; updating the catalog
\* price, marking the quotation generated, rendering an estimate document and
\* creating a dispatch leave them as they are.
C22_PriceSnapshotFrame ==
    [][(/\ resp'.op \notin {"decode_order_item", "decode_order_item_multiple",
                            "update_decoded_items"}
        /\ ~(/\ resp'.op = "reject_order"
              /\ resp'.order \in DOMAIN orders
              /\ orders[resp'.order].workflow_stage = "quotation_generated"))
       => \A i \in DOMAIN order_items :
            /\ i \in DOMAIN order_items'
            /\ order_items'[i].unit_price = order_items[i].unit_price
            /\ order_items'[i].gst_percentage = order_items[i].gst_percentage]_vars

\* C23: at decode time the line's unit price is the price the request supplies when
\* it supplies one; otherwise the price of the catalog item in the order's price
\* list when the order has a price list containing the item; otherwise the catalog
\* item's standard unit price.  (Requests supply ExplicitPrice or no price, so a
\* line written by a decode at another price took it from the fallback chain.)
C23_DecodePriceRule ==
    [][(/\ resp'.op \in {"decode_order_item", "decode_order_item_multiple",
                         "update_decoded_items"}
        /\ resp'.code = 200
        /\ resp'.order \in DOMAIN orders)
       => \A i \in ItemsOfOrder(order_items', resp'.order) :
            (i \notin DOMAIN order_items \/ order_items'[i] # order_items[i])
            => \/ order_items'[i].unit_price = ExplicitPrice
               \/ order_items'[i].unit_price =
                    (IF /\ orders[resp'.order].price_list_id # NULL
                        /\ PriceListPrice(orders[resp'.order].price_list_id,
                                          order_items'[i].inventory_id) # None
                     THEN PriceListPrice(orders[resp'.order].price_list_id,
                                         order_items'[i].inventory_id)
                     ELSE inventory[order_items'[i].inventory_id].unit_price)]_vars

(* ------------------------------------------------------------------ *)
(* SpecTwoOrders: two orders side by side.  o1 starts in                *)
(* inventory_check with one decoded line (the state Spec reaches by     *)
(* create_order, update_decoded_items, decode_order_item, upload,       *)
(* request-po-approval and approve-po); o2 is created and walked        *)
(* through the workflow next to it, with one unit of X in stock.        *)
(* Every handler is offered both order ids and both line ids.          *)
(* ------------------------------------------------------------------ *)
TwoOrderIds == {"o1", "o2"}

InitTwoOrders ==
    /\ orders = [o \in {"o1"} |->
                    [customer_id |-> "c1", order_number |-> 1, status |-> "po_approved",
                     workflow_stage |-> "inventory_check", price_list_id |-> NULL,
                     discount_percentage |-> 0]]
    /\ order_items = [i \in {1} |->
                        [order_id |-> "o1", item_description |-> DecodedDescription("X"),
                         notes |-> NULL, quantity |-> 1, inventory_id |-> "X",
                         unit_price |-> StdPrice("X"), gst_percentage |-> 18,
                         status |-> "pending"]]
    /\ inventory = [i \in InvIds |-> [unit_price |-> StdPrice(i),
                                     stock_quantity |-> IF i = "X" THEN 1 ELSE 0]]
    /\ dispatches = << >>
    /\ dispatch_items = << >>
    /\ approvals = << [entity_id |-> "o1", stage |-> "po_approval", status |-> "approved",
                       approver_id |-> "exec", comments |-> NULL,
                       approved_at |-> "utcnow"] >>
    /\ attachments = [o \in TwoOrderIds |-> IF o = "o1" THEN 1 ELSE 0]
    /\ received = [i \in InvIds |-> IF i = "X" THEN 1 ELSE 0]
    /\ txn = [s \in Sessions |-> NoTxn]
    /\ resp = Response("approve_purchase_order", "o1", 200, "")

NextTwoOrders ==
    \/ \E o \in TwoOrderIds : create_order(o, "c1")
    \/ \E o \in TwoOrderIds : delete_order(o)
    \/ \E o \in TwoOrderIds : update_decoded_items(o, <<DecodeLine("X", 1)>>)
    \/ \E o \in TwoOrderIds, i \in ItemIds : decode_order_item(o, i, DecodeLine("X", None))
    \/ \E o \in TwoOrderIds : submit_order_for_approval(o)
    \/ \E o \in TwoOrderIds : approve_order(o, NULL)
    \/ \E o \in TwoOrderIds : reject_order(o, "reason")
    \/ \E o \in TwoOrderIds : mark_quotation_generated(o, NoQuotationData)
    \/ \E o \in TwoOrderIds : upload_attachment(o)
    \/ \E o \in TwoOrderIds : request_po_approval(o)
    \/ \E o \in TwoOrderIds : approve_purchase_order(o)
    \/ \E o \in TwoOrderIds : reject_purchase_order(o, "reason")
    \/ \E o \in TwoOrderIds : mark_payment_received(o)
    \/ \E o \in TwoOrderIds, i \in ItemIds :
            create_dispatch(o, <<[order_item_id |-> i, inventory_id |-> "X", quantity |-> 1]>>)

SpecTwoOrders == InitTwoOrders /\ [][NextTwoOrders]_vars

\* what belongs to order b: its stage and status, its lines, its approvals, its
\* dispatches and their items
OrderFootprint(ords, items, apps, disps, ditems, b) ==
    [row |-> IF b \in DOMAIN ords
             THEN [workflow_stage |-> ords[b].workflow_stage, status |-> ords[b].status]
             ELSE [workflow_stage |-> NULL, status |-> NULL],
     lines |-> [i \in ItemsOfOrder(items, b) |-> items[i]],
     approvals |-> SelectSeq(apps, LAMBDA a : a.entity_id = b),
     dispatches |-> SelectSeq(disps, LAMBDA d : d.order_id = b),
     dispatch_items |-> SelectSeq(ditems, LAMBDA di :
                            \E k \in 1..Len(disps) :
                                /\ disps[k].order_id = b
                                /\ disps[k].dispatch_number = di.dispatch_id)]

\* C24: a request addressed to order a leaves every other order's stage, status,
\* lines, approvals and dispatches as they were
C24_OrdersIndependent ==
    [][\A a \in TwoOrderIds, b \in TwoOrderIds :
          (a # b /\ resp'.order = a)
          => OrderFootprint(orders', order_items', approvals', dispatches', dispatch_items', b)
               = OrderFootprint(orders, order_items, approvals, dispatches, dispatch_items, b)]_vars

\* o1 has just been approved or rejected while o2 holds a pending Approval and a
\* line; or o1 has just been dispatched while o2 is mid-workflow with a line
C24_Witness ==
    /\ resp.order = "o1"
    /\ resp.code \in {200, 201}
    /\ resp.op \in {"approve_order", "reject_order", "create_dispatch"}
    /\ PendingApprovals(approvals, "o2") # {}
    /\ ItemsOfOrder(order_items, "o2") # {}

(* ------------------------------------------------------------------ *)
(* SpecPipeline: the handlers of the order-to-dispatch pipeline, one    *)
(* request at a time: lines of quantity 1..MaxQty, stock received in    *)
(* any amount, dispatches of 1..MaxQty units of X for either line id.   *)
(* create_order stores no lines (it never reads order_data.items), so   *)
(* the order's line is the one the decode request writes.               *)
(* ------------------------------------------------------------------ *)
NextPipeline ==
    \/ \E o \in OrderIds : create_order(o, "c1")
    \/ \E o \in OrderIds, q \in 1..MaxQty : update_decoded_items(o, <<DecodeLine("X", q)>>)
    \/ \E o \in OrderIds : submit_order_for_approval(o)
    \/ \E o \in OrderIds : approve_order(o, NULL)
    \/ \E o \in OrderIds : mark_quotation_generated(o, NoQuotationData)
    \/ \E o \in OrderIds : upload_attachment(o)
    \/ \E o \in OrderIds : request_po_approval(o)
    \/ \E o \in OrderIds : approve_purchase_order(o)
    \/ \E o \in OrderIds, i \in ItemIds, d \in 1..MaxQty :
            create_dispatch(o, <<[order_item_id |-> i, inventory_id |-> "X", quantity |-> d]>>)
    \/ \E q \in 1..MaxStock : StockRequest("X", "add", q)

SpecPipeline == Init /\ [][NextPipeline]_vars

C26_ResolvesApprovalOfStage ==
    [][(/\ resp'.op \in {"approve_order", "reject_order"}
        /\ resp'.code = 200
        /\ resp'.order \in DOMAIN orders)
       => \A k \in 1..Len(approvals) :
            (approvals[k].status = "pending" /\ approvals'[k].status # "pending")
            => approvals[k].stage = orders[resp'.order].workflow_stage]_vars

\* C27: approve_order on an order in decoding_approval gives quotation / approved, on
\* an order in quotation_generated gives waiting_purchase_order / quote_sent, and
\* nothing else of the order changes; when the order has a pending Approval, one
\* pending Approval of it becomes approved, with the approver and the decision time
\* recorded, and no other Approval changes; when it has none, none changes
C27_ApproveOrder ==
    [][LET o == resp'.order
           stage == orders[o].workflow_stage
       IN  (/\ resp'.op = "approve_order"
            /\ o \in DOMAIN orders
            /\ stage \in {"decoding_approval", "quotation_generated"})
           => /\ resp'.code = 200
              /\ orders' = [orders EXCEPT
                    ![o].workflow_stage = IF stage = "decoding_approval"
                                          THEN "quotation" ELSE "waiting_purchase_order",
                    ![o].status = IF stage = "decoding_approval"
                                  THEN "approved" ELSE "quote_sent"]
              /\ IF PendingApprovals(approvals, o) = {}
                 THEN approvals' = approvals
                 ELSE \E k \in PendingApprovals(approvals, o) :
                        /\ Len(approvals') = Len(approvals)
                        /\ approvals'[k].status = "approved"
                        /\ approvals'[k].approver_id = "exec"
                        /\ approvals'[k].approved_at = "utcnow"
                        /\ approvals'[k].entity_id = o
                        /\ approvals'[k].stage = approvals[k].stage
                        /\ \A j \in 1..Len(approvals) : j # k => approvals'[j] = approvals[j]
              /\ UNCHANGED <<order_items, inventory, dispatches, dispatch_items, attachments>>]_vars

\* approve_order has just taken an order from quotation_generated to
\* waiting_purchase_order, or from decoding_approval to quotation resolving its
\* pending Approval
C27_Witness ==
    /\ resp.op = "approve_order" /\ resp.code = 200
    /\ "o1" \in DOMAIN orders
    /\ \/ /\ orders["o1"].workflow_stage = "waiting_purchase_order"
          /\ orders["o1"].status = "quote_sent"
          /\ \E k \in 1..Len(approvals) : approvals[k].status = "approved"
       \/ /\ orders["o1"].workflow_stage = "quotation"
          /\ orders["o1"].status = "approved"
          /\ \E k \in 1..Len(approvals) :
                /\ approvals[k].status = "approved"
                /\ approvals[k].approved_at = "utcnow"

\* C28: reject_purchase_order on an order in po_approval gives waiting_purchase_order /
\* po_rejected and turns one pending po_approval Approval of the order into rejected
\* with the reason, leaving every other Approval as it was; request_po_approval on
\* an order so rejected that has an attachment is accepted, gives po_approval and
\* appends a pending po_approval Approval, the earlier rows staying as they were
C28_PoRejectAndRequestAgain ==
    [][LET o == resp'.order
       IN  (o \in DOMAIN orders) =>
           /\ (resp'.op = "reject_purchase_order" /\ orders[o].workflow_stage = "po_approval")
              => /\ resp'.code = 200
                 /\ orders' = [orders EXCEPT ![o].workflow_stage = "waiting_purchase_order",
                                             ![o].status = "po_rejected"]
                 /\ \E k \in 1..Len(approvals) :
                      /\ approvals[k].entity_id = o
                      /\ approvals[k].stage = "po_approval"
                      /\ approvals[k].status = "pending"
                      /\ approvals' = [approvals EXCEPT ![k].status = "rejected",
                                                       ![k].comments = "reason",
                                                       ![k].approver_id = "exec",
                                                       ![k].approved_at = "utcnow"]
           /\ (/\ resp'.op = "request_po_approval"
               /\ orders[o].workflow_stage = "waiting_purchase_order"
               /\ orders[o].status = "po_rejected"
               /\ attachments[o] >= 1)
              => /\ resp'.code = 200
                 /\ orders' = [orders EXCEPT ![o].workflow_stage = "po_approval",
                                             ![o].status = "pending_po_approval"]
                 /\ approvals' = Append(approvals,
                        [entity_id |-> o, stage |-> "po_approval", status |-> "pending",
                         approver_id |-> NULL, comments |-> NULL, approved_at |-> NULL])]_vars

\* PO approval has been requested again after a rejection: the rejected Approval is
\* still rejected with its reason, next to the fresh pending one
C28_Witness ==
    /\ resp.op = "request_po_approval" /\ resp.code = 200
    /\ "o1" \in DOMAIN orders
    /\ orders["o1"].workflow_stage = "po_approval"
    /\ \E j, k \in 1..Len(approvals) :
          /\ j < k
          /\ approvals[j].stage = "po_approval" /\ approvals[j].status = "rejected"
          /\ approvals[j].comments = "reason"
          /\ approvals[k].stage = "po_approval" /\ approvals[k].status = "pending"

\* C29: an accepted create_dispatch lowers the stock of every catalog item by the
\* sum of the quantities of the dispatch lines the request creates for that item,
\* which is nothing for an item the request does not name, and changes nothing
\* else of the catalog
C29_DispatchStockDelta ==
    [][(resp'.op = "create_dispatch" /\ resp'.code = 201)
       => /\ DOMAIN inventory' = DOMAIN inventory
          /\ \A i \in DOMAIN inventory :
                inventory'[i] = [inventory[i] EXCEPT !.stock_quantity =
                    @ - (DispatchedFromInv(dispatch_items', i)
                           - DispatchedFromInv(dispatch_items, i))]]_vars

\* a request of two lines drawing on the same catalog item was accepted
C29_Witness ==
    /\ resp.op = "create_dispatch" /\ resp.code = 201
    /\ Len(dispatch_items) >= 2
    /\ dispatch_items[Len(dispatch_items)].dispatch_id
          = dispatch_items[Len(dispatch_items) - 1].dispatch_id
    /\ dispatch_items[Len(dispatch_items)].inventory_id
          = dispatch_items[Len(dispatch_items) - 1].inventory_id
    /\ inventory["Y"].stock_quantity = received["Y"]

(* ------------------------------------------------------------------ *)
(* SpecDecode: decode-multiple requests of every shape (one or two      *)
(* catalog items, present or missing, each with or without quantity,    *)
(* price and tax rate) on the lines that replace-all requests have      *)
(* written,                                                             *)
(* with and without a price list on the order                           *)
(* ------------------------------------------------------------------ *)
MultiDecodeLines ==
    {[inventory_id |-> i, quantity |-> None, unit_price |-> None, gst_percentage |-> None] :
        i \in InvIds \cup {NoInv}}
    \cup {[inventory_id |-> i, quantity |-> MaxQty, unit_price |-> ExplicitPrice,
           gst_percentage |-> 12] : i \in InvIds \cup {NoInv}}

MultiDecodeRequests == SeqsUpTo(MultiDecodeLines, 1, MaxLines)

ReplaceRequests == SeqsUpTo({DecodeLine(i, 1) : i \in InvIds \cup {NoInv}}, 1, MaxLines)

NextDecode ==
    \/ \E o \in OrderIds : create_order(o, "c1")
    \/ \E o \in OrderIds, ds \in ReplaceRequests : update_decoded_items(o, ds)
    \/ \E o \in OrderIds : generate_estimate_pdf_with_discount(o, Absent, "pl1")
    \/ \E o \in OrderIds, L \in ItemIds, ds \in MultiDecodeRequests :
            decode_order_item_multiple(o, L, ds)

SpecDecode == Init /\ [][NextDecode]_vars

\* C30: an accepted decode of line L into the n catalog items of the request leaves
\* L decoded to the first item and adds n - 1 decoded lines, one per further item,
\* each with the description and notes L had and with the catalog reference,
\* quantity (1 when not given), price (the given one, else the order's price-list
\* price, else the catalog price) and tax rate (18 when not given) of its request
\* line; L keeps its description and notes; no other line changes or disappears
C30_DecodeMultiple ==
    [][\A o \in OrderIds, L \in ItemIds, ds \in MultiDecodeRequests :
        (/\ resp'.op = "decode_order_item_multiple"
         /\ resp'.code = 200
         /\ decode_order_item_multiple(o, L, ds))
        => LET n == Len(ds)
               new == DOMAIN order_items' \ DOMAIN order_items
               price(d) == IF d.unit_price # None THEN d.unit_price
                           ELSE IF /\ orders[o].price_list_id # NULL
                                   /\ PriceListPrice(orders[o].price_list_id, d.inventory_id) # None
                                THEN PriceListPrice(orders[o].price_list_id, d.inventory_id)
                           ELSE inventory[d.inventory_id].unit_price
               row(d) == [order_id |-> o,
                          item_description |-> order_items[L].item_description,
                          notes |-> order_items[L].notes,
                          quantity |-> IF d.quantity = None THEN 1 ELSE d.quantity,
                          inventory_id |-> d.inventory_id,
                          unit_price |-> price(d),
                          gst_percentage |-> IF d.gst_percentage = None THEN 18
                                             ELSE d.gst_percentage,
                          status |-> "decoded"]
           IN  /\ DOMAIN order_items \subseteq DOMAIN order_items'
               /\ \A i \in DOMAIN order_items \ {L} : order_items'[i] = order_items[i]
               /\ order_items'[L] = row(ds[1])
               /\ Cardinality(new) = n - 1
               /\ \E f \in [2..n -> new] :
                     /\ \A j, k \in 2..n : j # k => f[j] # f[k]
                     /\ \A k \in 2..n : order_items'[f[k]] = row(ds[k])]_vars

\* a line described after X has been decoded into two catalog items, the second
\* being Y: the added line carries the first line's description
C30_Witness ==
    /\ resp.op = "decode_order_item_multiple" /\ resp.code = 200
    /\ DOMAIN order_items = {1, 2}
    /\ order_items[2].inventory_id = "Y"
    /\ order_items[2].item_description = DecodedDescription("X")
    /\ order_items[1].item_description = DecodedDescription("X")
    /\ order_items[2].quantity = MaxQty

C32_CumulativeValidation ==
    [][(resp'.op = "create_dispatch" /\ resp'.code = 201)
       => /\ \A i \in DOMAIN order_items :
                DispatchedQty(dispatch_items', i) - DispatchedQty(dispatch_items, i)
                    <= order_items[i].quantity - DispatchedQty(dispatch_items, i)
          /\ \A v \in DOMAIN inventory :
                DispatchedFromInv(dispatch_items', v) - DispatchedFromInv(dispatch_items, v)
                    <= inventory[v].stock_quantity]_vars

C34_LateStageDecoded ==
    \A o \in DOMAIN orders :
        orders[o].workflow_stage \in {"decoding_approval", "quotation", "quotation_generated",
                                      "waiting_purchase_order", "po_approval",
                                      "inventory_check", "payment_pending", "completed"}
        => /\ \E i \in DOMAIN order_items : order_items[i].order_id = o
           /\ \A i \in DOMAIN order_items :
                 order_items[i].order_id = o => order_items[i].inventory_id # NULL

\* an order past decoding approval has just had all its lines replaced
C34_Witness ==
    /\ resp.op = "update_decoded_items" /\ resp.code = 200
    /\ resp.order \in DOMAIN orders
    /\ orders[resp.order].workflow_stage \in {"quotation", "waiting_purchase_order",
                                               "inventory_check"}
    /\ ItemsOfOrder(order_items, resp.order) # {}

\* C35: completed is absorbing: a step taken with an order in stage completed
\* leaves that order in stage completed, whichever operation it is
C35_CompletedAbsorbing ==
    [][\A o \in DOMAIN orders :
         orders[o].workflow_stage = "completed"
         => /\ o \in DOMAIN orders'
            /\ orders'[o].workflow_stage = "completed"]_vars

(* ------------------------------------------------------------------ *)
(* SpecCrossItem: the pipeline with two catalog items: the order's line *)
(* is decoded to X or to Y, stock is received for either, and a         *)
(* dispatch request names either item for either line id.               *)
(* ------------------------------------------------------------------ *)
CrossItemDispatchLines == [order_item_id : ItemIds, inventory_id : InvIds, quantity : {1}]

NextCrossItem ==
    \/ \E o \in OrderIds : create_order(o, "c1")
    \/ \E o \in OrderIds, i \in InvIds : update_decoded_items(o, <<DecodeLine(i, 1)>>)
    \/ \E o \in OrderIds : submit_order_for_approval(o)
    \/ \E o \in OrderIds : approve_order(o, NULL)
    \/ \E o \in OrderIds : mark_quotation_generated(o, NoQuotationData)
    \/ \E o \in OrderIds : upload_attachment(o)
    \/ \E o \in OrderIds : request_po_approval(o)
    \/ \E o \in OrderIds : approve_purchase_order(o)
    \/ \E o \in OrderIds, l \in CrossItemDispatchLines : create_dispatch(o, <<l>>)
    \/ \E i \in InvIds : StockRequest(i, "add", 1)

SpecCrossItem == Init /\ [][NextCrossItem]_vars

\* C36: an accepted create_dispatch creates only dispatch lines whose catalog item
\* is the catalog reference of the order line they name, and lowers the stock of no
\* catalog item other than the references of the order lines it dispatches
C36_DispatchDrawsOrderedItem ==
    [][(resp'.op = "create_dispatch" /\ resp'.code = 201)
       => /\ \A k \in Len(dispatch_items) + 1..Len(dispatch_items') :
                dispatch_items'[k].inventory_id
                    = order_items[dispatch_items'[k].order_item_id].inventory_id
          /\ \A v \in DOMAIN inventory :
                inventory'[v].stock_quantity < inventory[v].stock_quantity
                => \E k \in Len(dispatch_items) + 1..Len(dispatch_items') :
                        order_items[dispatch_items'[k].order_item_id].inventory_id = v]_vars

====
